---- MODULE Spec2Model ----
(***************************************************************************)
(* Model of the retired-in-a-field CVM backend: the leaderboard ledger     *)
(* (leaderboard_updates / leaderboard_entries, utils/leaderboard.ts) and   *)
(* the donation split ledger with its payment intents (donations,          *)
(* split_accumulators, payouts; utils/splits.ts and utils/payout-worker.ts,*)
(* both kept in src/utils/database.ts).                                    *)
(*                                                                         *)
(* The process is a single JavaScript event loop over a synchronous SQLite *)
(* handle: code between two awaits runs atomically, so every action below  *)
(* is one such run-to-the-next-await segment.                              *)
(***************************************************************************)
EXTENDS Integers, Sequences, FiniteSets, TLC

VARIABLES
    leaderboard_entries,   \* table leaderboard_entries: npub -> row
    leaderboard_updates,   \* table leaderboard_updates: rows in id order
    lbTrace,               \* which direct calls are recorded in lbCall/lbResult
    lbCall,                \* the direct leaderboard call made by the last step
    lbResult,              \* what that call returned (or that it threw)
    uwv,                   \* updateLeaderboardWithValidation calls in flight
    donations,             \* table donations: source -> amount_sats
    split_accumulators,    \* table split_accumulators: npub -> owed_sats
    payouts,               \* table payouts: rows in id order (id = index)
    ing,                   \* recordDonationAndSplitFromAmount calls in flight
    ingReturn,             \* what the last such call to end returned
    worker,                \* the payout worker: its flags and its cycle
    cashu_access_requests, \* table cashu_access_requests: ref_id -> row
    toolResult,            \* what the last tool handler to return answered
    cashu_local,           \* files of CASHU_LOCAL_STORE_DIR: token hash -> record
    local,                 \* processCashuToken calls in local mode in flight
    localReturn,           \* what those calls returned, in the order of return
    dispatch               \* a run of the chunked dispatch loop, turn by turn

lbVars == <<leaderboard_entries, leaderboard_updates, lbTrace, lbCall, lbResult, uwv>>

payVars == <<donations, split_accumulators, payouts, ing, ingReturn, worker>>

\* The local-mode calls and the dispatch loop run on their own.
sideVars == <<cashu_local, local, localReturn, dispatch>>

gateVars == <<cashu_access_requests, toolResult, sideVars>>

vars == <<leaderboard_entries, leaderboard_updates, lbTrace, lbCall, lbResult, uwv,
          donations, split_accumulators, payouts, ing, ingReturn, worker,
          cashu_access_requests, toolResult,
          cashu_local, local, localReturn, dispatch>>

(***************************************************************************)
(* Bounds and input domains                                                *)
(***************************************************************************)
MaxSats == 2
MaxAmount == 5
MaxPayouts == 4
MaxCalls == 3

Null == "null"

\* A table keyed by k: the row v inserted or replaced.
Put(f, k, v) == [x \in DOMAIN f \cup {k} |-> IF x = k THEN v ELSE f[x]]
NoRows == [x \in {} |-> Null]

Npubs == {"p1", "p2"}
RefIds == {"r1", "r2"}
Initials == {"abc", "XYZ"}
Reqs == {1}
Tokens == {"t1", "t2"}
Tasks == {1, 2}

\* The places at which the store can fail inside a transaction.
Faults == {"none", "entry", "insert"}

\* Inputs a caller can present to updateLeaderboard: every well-formed one
\* with every fault, and one malformed input of each kind.
WellFormedUpdates ==
    [npub : Npubs, initials : Initials, sats : 1..MaxSats, refId : RefIds,
     fault : Faults]
MalformedUpdates ==
    {[npub |-> "", initials |-> "abc", sats |-> 1, refId |-> "r1", fault |-> "none"],
     [npub |-> "p1", initials |-> "", sats |-> 1, refId |-> "r1", fault |-> "none"],
     [npub |-> "p1", initials |-> "ab", sats |-> 1, refId |-> "r1", fault |-> "none"],
     [npub |-> "p1", initials |-> "abc", sats |-> 0, refId |-> "r1", fault |-> "none"],
     [npub |-> "p1", initials |-> "abc", sats |-> -1, refId |-> "r1", fault |-> "none"],
     [npub |-> "p1", initials |-> "abc", sats |-> 1, refId |-> "", fault |-> "none"]}
UpdateInputs == WellFormedUpdates \cup MalformedUpdates

\* String.prototype.toUpperCase on the initials the model uses.
toUpperCase(s) ==
    CASE s = "abc" -> "ABC"
      [] s = "ab" -> "AB"
      [] OTHER -> s

\* String.length on the initials the model uses.
length(s) ==
    CASE s = "" -> 0
      [] s = "ab" -> 2
      [] s = "AB" -> 2
      [] OTHER -> 3


(***************************************************************************)
(* Storage: transactions                                                   *)
(***************************************************************************)
\* The leaderboard tables as one database value.
LbDb == [entries |-> leaderboard_entries, updates |-> leaderboard_updates]

\* executeTransaction: run the callback; commit what it wrote when it
\* returns, roll everything back and rethrow when it throws.
\* `before` is the database at BEGIN, `run` the callback's run:
\* [db |-> what it had written when it ended, threw |-> whether it threw,
\*  ret |-> its return value].
executeTransactionNoRollback(before, run) ==
    [db |-> run.db, threw |-> run.threw, ret |-> run.ret]

executeTransaction(before, run) ==
    IF run.threw THEN [db |-> before, threw |-> TRUE, ret |-> Null]
    ELSE [db |-> run.db, threw |-> FALSE, ret |-> run.ret]

(***************************************************************************)
(* updateLeaderboard                                                       *)
(***************************************************************************)
existingUpdateNeverFound(db, refId) == FALSE

\* SELECT id FROM leaderboard_updates WHERE ref_id = ?
existingUpdate(db, refId) ==
    \E i \in 1..Len(db.updates) : db.updates[i].ref_id = refId

currentTotalOfFirstEntry(db, npub) ==
    IF db.entries = NoRows THEN 0
    ELSE db.entries[CHOOSE n \in DOMAIN db.entries : TRUE].total_sats_lost

\* SELECT total_sats_lost FROM leaderboard_entries WHERE npub = ?  (|| 0)
currentTotalOrZero(db, npub) ==
    IF npub \in DOMAIN db.entries THEN db.entries[npub].total_sats_lost ELSE 0

hasEntry(db, npub) == npub \in DOMAIN db.entries

writeEntryNotCumulative(db, npub, initials, sats) ==
    [db EXCEPT !.entries = Put(@, npub,
            [initials |-> toUpperCase(initials), total_sats_lost |-> sats])]

\* The entry write of updateLeaderboard: UPDATE (cumulative) or INSERT.
writeEntry(db, npub, initials, sats) ==
    LET totalSats == IF hasEntry(db, npub)
                     THEN db.entries[npub].total_sats_lost + sats
                     ELSE sats
    IN [db EXCEPT !.entries = Put(@, npub,
            [initials |-> toUpperCase(initials), total_sats_lost |-> totalSats])]

insertUpdateWithoutAmount(db, npub, initials, sats, refId) ==
    [db EXCEPT !.updates = Append(@,
        [ref_id |-> refId, npub |-> npub,
         initials |-> toUpperCase(initials), sats_lost |-> 0])]

\* INSERT INTO leaderboard_updates (ref_id, npub, initials, sats_lost)
insertUpdate(db, npub, initials, sats, refId) ==
    [db EXCEPT !.updates = Append(@,
        [ref_id |-> refId, npub |-> npub,
         initials |-> toUpperCase(initials), sats_lost |-> sats])]

\* The callback updateLeaderboard hands to executeTransaction.  `fault`
\* names the statement at which the store fails: "none", "entry" (the write
\* of leaderboard_entries) or "insert" (the insert of the update record,
\* after the entry has been written).
updateLeaderboardTx(db, npub, initials, sats, refId, fault) ==
    IF existingUpdate(db, refId)
    THEN [db |-> db, threw |-> FALSE,
          ret |-> [totalSats |-> currentTotalOrZero(db, npub), isDuplicate |-> TRUE]]
    ELSE IF fault = "entry"
    THEN [db |-> db, threw |-> TRUE, ret |-> Null]
    ELSE LET db1 == writeEntry(db, npub, initials, sats)
         IN IF fault = "insert"
            THEN [db |-> db1, threw |-> TRUE, ret |-> Null]
            ELSE [db |-> insertUpdate(db1, npub, initials, sats, refId),
                  threw |-> FALSE,
                  ret |-> [totalSats |-> db1.entries[npub].total_sats_lost,
                           isDuplicate |-> FALSE]]

invalidUpdateInputAcceptsZero(npub, initials, sats, refId) ==
    \/ npub = "" \/ initials = "" \/ sats < 0 \/ refId = ""
    \/ length(initials) # 3

\* The input validation of updateLeaderboard and of
\* updateLeaderboardWithValidation.
invalidUpdateInput(npub, initials, sats, refId) ==
    \/ npub = "" \/ initials = "" \/ sats <= 0 \/ refId = ""
    \/ length(initials) # 3

\* updateLeaderboard as a function of the database: the database it leaves
\* and the result it returns (status "error" when it throws).
updateLeaderboard(db, npub, initials, sats, refId, fault) ==
    IF invalidUpdateInput(npub, initials, sats, refId)
    THEN [db |-> db, res |-> [status |-> "error", totalSats |-> 0, isDuplicate |-> FALSE]]
    ELSE LET t == executeTransaction(db,
                     updateLeaderboardTx(db, npub, initials, sats, refId, fault))
         IN IF t.threw
            THEN [db |-> t.db,
                  res |-> [status |-> "error", totalSats |-> 0, isDuplicate |-> FALSE]]
            ELSE [db |-> t.db,
                  res |-> [status |-> "ok", totalSats |-> t.ret.totalSats,
                           isDuplicate |-> t.ret.isDuplicate]]

(***************************************************************************)
(* validateAndSyncPlayerScore                                              *)
(***************************************************************************)
\* SELECT COALESCE(SUM(sats_lost), 0) FROM leaderboard_updates WHERE npub = ?
RECURSIVE calculatedTotal(_, _)
calculatedTotal(updates, npub) ==
    IF updates = <<>> THEN 0
    ELSE (IF Head(updates).npub = npub THEN Head(updates).sats_lost ELSE 0)
         + calculatedTotal(Tail(updates), npub)

NoSync == [wasInconsistent |-> FALSE, oldTotal |-> 0, newTotal |-> 0, difference |-> 0]

validateAndSyncTxReportOnly(db, npub, fault) ==
    IF ~hasEntry(db, npub)
    THEN [db |-> db, threw |-> FALSE, ret |-> NoSync]
    ELSE LET oldTotal == db.entries[npub].total_sats_lost
             newTotal == calculatedTotal(db.updates, npub)
         IN [db |-> db, threw |-> FALSE,
             ret |-> [wasInconsistent |-> newTotal # oldTotal, oldTotal |-> oldTotal,
                      newTotal |-> newTotal, difference |-> newTotal - oldTotal]]

\* The callback validateAndSyncPlayerScore hands to executeTransaction;
\* `fault` other than "none" makes its one write fail.
validateAndSyncTx(db, npub, fault) ==
    IF ~hasEntry(db, npub)
    THEN [db |-> db, threw |-> FALSE, ret |-> NoSync]
    ELSE LET oldTotal == db.entries[npub].total_sats_lost
             newTotal == calculatedTotal(db.updates, npub)
             difference == newTotal - oldTotal
         IN IF difference = 0
            THEN [db |-> db, threw |-> FALSE,
                  ret |-> [wasInconsistent |-> FALSE, oldTotal |-> oldTotal,
                           newTotal |-> newTotal, difference |-> 0]]
            ELSE IF fault # "none"
            THEN [db |-> db, threw |-> TRUE, ret |-> Null]
            ELSE [db |-> [db EXCEPT !.entries[npub].total_sats_lost = newTotal],
                  threw |-> FALSE,
                  ret |-> [wasInconsistent |-> TRUE, oldTotal |-> oldTotal,
                           newTotal |-> newTotal, difference |-> difference]]

\* validateAndSyncPlayerScore as a function of the database.
validateAndSyncPlayerScore(db, npub, fault) ==
    IF npub = ""
    THEN [db |-> db, res |-> [status |-> "error", sync |-> NoSync]]
    ELSE LET t == executeTransaction(db, validateAndSyncTx(db, npub, fault))
         IN IF t.threw
            THEN [db |-> t.db, res |-> [status |-> "error", sync |-> NoSync]]
            ELSE [db |-> t.db, res |-> [status |-> "ok", sync |-> t.ret]]

\* checkLeaderboard: the rows of leaderboard_entries (at most ten of them,
\* and the model never holds more players than that); a failing query is
\* rethrown.
checkLeaderboard(db, fault) ==
    IF fault THEN [threw |-> TRUE, ret |-> Null]
    ELSE [threw |-> FALSE, ret |-> db.entries]

\* COUNT(DISTINCT ref_id) of the player's updates.
played(db, npub) ==
    Cardinality({db.updates[i].ref_id :
                     i \in {j \in 1..Len(db.updates) : db.updates[j].npub = npub}})

\* getPlayer: null (found |-> FALSE) for an unknown player, an exception
\* for an empty npub or a failing query.
getPlayer(db, npub, fault) ==
    IF npub = "" \/ fault THEN [threw |-> TRUE, found |-> FALSE, ret |-> Null]
    ELSE IF ~hasEntry(db, npub) THEN [threw |-> FALSE, found |-> FALSE, ret |-> Null]
    ELSE [threw |-> FALSE, found |-> TRUE,
          ret |-> [npub |-> npub, initials |-> db.entries[npub].initials,
                   score |-> db.entries[npub].total_sats_lost,
                   played |-> played(db, npub)]]

\* The absolute value.
signedDifference(n) == n

abs(n) == IF n < 0 THEN -n ELSE n

\* The sum of f over the set S.
RECURSIVE SumOver(_, _)
SumOver(S, f) ==
    IF S = {} THEN 0
    ELSE LET x == CHOOSE y \in S : TRUE IN f[x] + SumOver(S \ {x}, f)

\* performIntegrityCheck: read-only; the issues are kept as a set.
performIntegrityCheck(db, fault) ==
    IF fault THEN [threw |-> TRUE, ret |-> Null]
    ELSE LET players == DOMAIN db.entries
             difference == [npub \in players |->
                               calculatedTotal(db.updates, npub)
                               - db.entries[npub].total_sats_lost]
             bad == {npub \in players : difference[npub] # 0}
         IN [threw |-> FALSE,
             ret |-> [totalPlayers |-> Cardinality(players),
                      consistentPlayers |-> Cardinality(players) - Cardinality(bad),
                      inconsistentPlayers |-> Cardinality(bad),
                      totalDiscrepancy |->
                          SumOver(bad, [npub \in bad |-> abs(difference[npub])]),
                      issues |-> {[npub |-> npub,
                                   initials |-> db.entries[npub].initials,
                                   leaderboardTotal |-> db.entries[npub].total_sats_lost,
                                   calculatedTotal |-> calculatedTotal(db.updates, npub),
                                   difference |-> difference[npub]] : npub \in bad}]]

(***************************************************************************)
(* Donation split ledger: configuration                                    *)
(***************************************************************************)
\* getConfig(): the two payees and the payout threshold (the environment's
\* SPLIT_NPUB1, SPLIT_NPUB2 and SPLIT_THRESHOLD_SATS).
getConfig == [npub1 |-> "P1", npub2 |-> "P2", threshold |-> 2]

\* The splits.json files the payout worker may find: one entry per payee,
\* the second payee's minimum at the threshold; or the same with both
\* minimums at 1 and an entry without a lightning address in between.
SplitsFiles ==
    << [entries |-> << [npub |-> "P1", lightningAddress |-> "p1@ln", min_amount |-> 1],
                       [npub |-> "P2", lightningAddress |-> "p2@ln", min_amount |-> 2] >>],
       [entries |-> << [npub |-> "P1", lightningAddress |-> "p1@ln", min_amount |-> 1],
                       [npub |-> "P2", lightningAddress |-> "", min_amount |-> 1],
                       [npub |-> "P2", lightningAddress |-> "p2@ln", min_amount |-> 1] >>] >>

\* splits.json as the payout worker has loaded it.
loadedConfig == SplitsFiles[worker.splits]

Payees == {getConfig.npub1, getConfig.npub2}

\* sha256(encodedToken), hex: distinct tokens have distinct digests.
sha256(token) == "sha256:" \o token

\* The donation tables as one database value.
PayDb == [donations |-> donations, acc |-> split_accumulators, payouts |-> payouts]

(***************************************************************************)
(* Donation split ledger: statements                                       *)
(***************************************************************************)
\* INSERT INTO split_accumulators ... ON CONFLICT(npub) DO UPDATE
\*   SET owed_sats = owed_sats + delta
upsertAccumulator(db, npub, delta) ==
    [db EXCEPT !.acc = Put(@, npub,
        IF npub \in DOMAIN db.acc THEN db.acc[npub] + delta ELSE delta)]

\* SELECT owed_sats FROM split_accumulators WHERE npub = ?   (?? 0)
getOwed(db, npub) == IF npub \in DOMAIN db.acc THEN db.acc[npub] ELSE 0

\* SELECT COALESCE(SUM(amount_sats),0) FROM payouts
\*   WHERE npub = ? AND status = 'pending'
RECURSIVE getPendingSum(_, _)
getPendingSum(rows, npub) ==
    IF rows = <<>> THEN 0
    ELSE (IF Head(rows).npub = npub /\ Head(rows).status = "pending"
          THEN Head(rows).amount_sats ELSE 0)
         + getPendingSum(Tail(rows), npub)

ceilHalfRoundsDown(amount) == amount \div 2

\* Math.ceil(amount / 2) on an integer.
ceilHalf(amount) == (amount + 1) \div 2

\* Math.floor(amount / 2) on an integer.
floorHalf(amount) == amount \div 2

existingDonationNeverFound(db, source) == FALSE

\* SELECT source FROM donations WHERE source = ?
existingDonation(db, source) == source \in DOMAIN db.donations

\* recordDonationAndSplit: INSERT OR IGNORE the donation, then credit the
\* ceiling half to npub1 and the floor half to npub2.
recordDonationAndSplit(db, source, amount, npub1, npub2) ==
    IF source \in DOMAIN db.donations
    THEN [db |-> db, isNew |-> FALSE, splits |-> <<>>]
    ELSE LET part1 == ceilHalf(amount)
             part2 == floorHalf(amount)
             db1 == [db EXCEPT !.donations = Put(@, source, amount)]
             db2 == upsertAccumulator(db1, npub1, part1)
             db3 == upsertAccumulator(db2, npub2, part2)
         IN [db |-> db3, isNew |-> TRUE,
             splits |-> << [npub |-> npub1, added |-> part1,
                            newOwed |-> getOwed(db3, npub1)],
                           [npub |-> npub2, added |-> part2,
                            newOwed |-> getOwed(db3, npub2)] >>]

\* createPayoutRow (ingestion):
\* INSERT INTO payouts (npub, amount_sats, status) VALUES (?, ?, 'pending')
createPayoutRow(db, npub, amount) ==
    [db EXCEPT !.payouts = Append(@,
        [npub |-> npub, amount_sats |-> amount, status |-> "pending",
         external_ref |-> Null, error |-> Null])]

\* An insert that takes the amount off the payee's balance at once.
createPendingPayoutDebiting(db, npub, amount) ==
    [db EXCEPT !.payouts = Append(@,
        [npub |-> npub, amount_sats |-> amount, status |-> "pending",
         external_ref |-> Null, error |-> Null]),
               !.acc = [n \in DOMAIN @ |-> IF n = npub THEN @[n] - amount ELSE @[n]]]

\* createPendingPayout (worker): the same insert.
createPendingPayout(db, npub, amount) ==
    [db EXCEPT !.payouts = Append(@,
        [npub |-> npub, amount_sats |-> amount, status |-> "pending",
         external_ref |-> Null, error |-> Null])]

\* The while loop of triggerPayoutsIfThreshold, from an in-memory balance
\* `owed`: one pending row of `threshold` per turn, owed -= threshold.
\* `out` is the list of payouts it returns.
RECURSIVE triggerLoop(_, _, _, _, _)
triggerLoop(db, npub, threshold, owed, out) ==
    IF owed >= threshold
    THEN triggerLoop(createPayoutRow(db, npub, threshold), npub, threshold,
                     owed - threshold,
                     Append(out, [npub |-> npub, amount |-> threshold,
                                  status |-> "pending"]))
    ELSE [db |-> db, payouts |-> out]

triggerSinglePayout(db, npub, threshold) ==
    IF getOwed(db, npub) >= threshold
    THEN [db |-> createPayoutRow(db, npub, threshold),
          payouts |-> << [npub |-> npub, amount |-> threshold,
                          status |-> "pending"] >>]
    ELSE [db |-> db, payouts |-> <<>>]

\* triggerPayoutsIfThreshold: the loop from the stored balance.
triggerPayoutsIfThreshold(db, npub, threshold) ==
    triggerLoop(db, npub, threshold, getOwed(db, npub), <<>>)

\* UPDATE payouts SET status='sent', external_ref=? WHERE id=?
setSent(db, payoutId, externalRef) ==
    IF payoutId \in 1..Len(db.payouts)
    THEN [db EXCEPT !.payouts[payoutId].status = "sent",
                    !.payouts[payoutId].external_ref = externalRef]
    ELSE db

\* UPDATE payouts SET status='failed', error=? WHERE id=?
setFailed(db, payoutId, error) ==
    IF payoutId \in 1..Len(db.payouts)
    THEN [db EXCEPT !.payouts[payoutId].status = "failed",
                    !.payouts[payoutId].error = error]
    ELSE db

\* A decrement that stops at zero.
decrementOwedClamped(db, npub, amount) ==
    IF npub \in DOMAIN db.acc
    THEN [db EXCEPT !.acc[npub] = IF @ - amount < 0 THEN 0 ELSE @ - amount]
    ELSE db

\* UPDATE split_accumulators SET owed_sats = owed_sats - ? WHERE npub=?
decrementOwed(db, npub, amount) ==
    IF npub \in DOMAIN db.acc THEN [db EXCEPT !.acc[npub] = @ - amount] ELSE db

\* finalizePayoutSuccess (ingestion): the row is marked sent and the payee's
\* balance decremented by the amount.
finalizePayoutSuccess(db, payoutId, npub, amount, externalRef) ==
    decrementOwed(setSent(db, payoutId, externalRef), npub, amount)

\* finalizePayoutFailure (ingestion): the row is marked failed, with the error.
finalizePayoutFailure(db, payoutId, error) == setFailed(db, payoutId, error)

\* markPayoutSent (worker): as finalizePayoutSuccess.
markPayoutSent(db, payoutId, npub, amount, externalRef) ==
    decrementOwed(setSent(db, payoutId, externalRef), npub, amount)

markPayoutFailedCancels(db, payoutId, error) ==
    IF payoutId \in 1..Len(db.payouts)
    THEN [db EXCEPT !.payouts[payoutId].status = "canceled"]
    ELSE db

markPayoutFailedDebits(db, payoutId, error) ==
    IF payoutId \in 1..Len(db.payouts)
    THEN decrementOwed(setFailed(db, payoutId, error),
                       db.payouts[payoutId].npub, db.payouts[payoutId].amount_sats)
    ELSE db

\* markPayoutFailed (worker): as finalizePayoutFailure; the balance is not
\* touched.
markPayoutFailed(db, payoutId, error) == setFailed(db, payoutId, error)

newestOfAnyStatus(db, npub, amount) ==
    LET ids == {i \in 1..Len(db.payouts) :
                  /\ db.payouts[i].npub = npub
                  /\ db.payouts[i].amount_sats = amount}
    IN IF ids = {} THEN 0 ELSE CHOOSE i \in ids : \A j \in ids : j <= i

\* SELECT id FROM payouts WHERE npub=? AND amount_sats=? AND status='pending'
\*   ORDER BY id DESC LIMIT 1      (0 when there is no such row)
newestPending(db, npub, amount) ==
    LET ids == {i \in 1..Len(db.payouts) :
                  /\ db.payouts[i].npub = npub
                  /\ db.payouts[i].amount_sats = amount
                  /\ db.payouts[i].status = "pending"}
    IN IF ids = {} THEN 0 ELSE CHOOSE i \in ids : \A j \in ids : j <= i

\* requestInvoiceAndPayStub: the ingestion's payment call; it always
\* reports success.
requestInvoiceAndPayStub(npub, amount) == [ok |-> TRUE, externalRef |-> "stub_tx"]

\* The callback recordDonationAndSplitFromAmount hands to
\* executeTransaction; `fault` makes the store fail with the donation row
\* and the first credit written ("credit"), with both credits written
\* ("insert"), or with the pending payouts written too ("intent").
recordDonationTxWith(cfg, db, source, amountSats, fault) ==
    IF existingDonation(db, source)
    THEN [db |-> db, threw |-> FALSE,
          ret |-> [preventedDuplicate |-> TRUE, splits |-> <<>>,
                   pendingPayouts |-> <<>>]]
    ELSE LET rec == recordDonationAndSplit(db, source, amountSats, cfg.npub1, cfg.npub2)
             tp1 == triggerPayoutsIfThreshold(rec.db, cfg.npub1, cfg.threshold)
             tp2 == triggerPayoutsIfThreshold(tp1.db, cfg.npub2, cfg.threshold)
         IN IF fault = "credit"
            THEN [db |-> upsertAccumulator(
                             [db EXCEPT !.donations = Put(@, source, amountSats)],
                             cfg.npub1, ceilHalf(amountSats)),
                  threw |-> TRUE, ret |-> Null]
            ELSE IF fault = "insert"
            THEN [db |-> rec.db, threw |-> TRUE, ret |-> Null]
            ELSE IF fault = "intent"
            THEN [db |-> tp2.db, threw |-> TRUE, ret |-> Null]
            ELSE IF ~rec.isNew
            THEN [db |-> rec.db, threw |-> FALSE,
                  ret |-> [preventedDuplicate |-> FALSE, splits |-> rec.splits,
                           pendingPayouts |-> <<>>]]
            ELSE [db |-> tp2.db, threw |-> FALSE,
                  ret |-> [preventedDuplicate |-> FALSE, splits |-> rec.splits,
                           pendingPayouts |-> tp1.payouts \o tp2.payouts]]

\* ... under the configuration getConfig() returns.
recordDonationTx(db, source, amountSats, fault) ==
    recordDonationTxWith(getConfig, db, source, amountSats, fault)

(***************************************************************************)
(* Payout worker: one cycle                                                *)
(***************************************************************************)
\* if (!npub || !lightningAddress || !min_amount || min_amount <= 0) continue
invalidEntry(entry) ==
    \/ entry.npub = "" \/ entry.lightningAddress = ""
    \/ entry.min_amount <= 0

Max(a, b) == IF a >= b THEN a ELSE b

availableIgnoringPending(db, npub) == Max(0, getOwed(db, npub))

\* available = Math.max(0, owed - pending)
available(db, npub) == Max(0, getOwed(db, npub) - getPendingSum(db.payouts, npub))

\* The entry the loop goes on with after entry idx, whose processing failed
\* or not: the try/catch is inside the loop.
resumeAtEndOnFailure(idx, failed) ==
    IF failed THEN Len(loadedConfig.entries) + 1 ELSE idx + 1

resumeAt(idx, failed) == idx + 1

\* A loop that takes the entry again when its payment failed.
afterZapRetries(idx, failed) == IF failed THEN idx ELSE resumeAt(idx, failed)

\* The entry the loop goes on with once the outcome of the payment for entry
\* idx is recorded (or recording it failed): the next one.
afterZap(idx, failed) == resumeAt(idx, failed)

\* A cycle that ends without releasing the guard.
cycleEndedHoldingGuard(w) ==
    [w EXCEPT !.pc = "idle", !.idx = 0, !.payoutId = 0, !.payAmount = 0]

\* The callback is left: finally { inCycle = false }.
cycleEnded(w) ==
    [w EXCEPT !.inCycle = FALSE, !.pc = "idle", !.idx = 0,
              !.payoutId = 0, !.payAmount = 0]

\* The for loop of a cycle from entry `idx` on, up to its next await: entries
\* that are invalid or below their minimum are skipped; the first payable one
\* gets a pending payout of its whole available amount and the cycle waits
\* for zap(); past the last entry the cycle ends (finally: inCycle = false).
\* `failing` holds the entries whose insert fails (caught, the loop goes on).
RECURSIVE cycleFrom(_, _, _, _)
cycleFrom(db, w, idx, failing) ==
    IF idx > Len(loadedConfig.entries)
    THEN [db |-> db, w |-> cycleEnded(w)]
    ELSE LET entry == loadedConfig.entries[idx]
             payAmount == available(db, entry.npub)
         IN IF invalidEntry(entry) \/ payAmount < entry.min_amount
               \/ idx \in failing
            THEN cycleFrom(db, w, resumeAt(idx, idx \in failing), failing)
            ELSE [db |-> createPendingPayout(db, entry.npub, payAmount),
                  w |-> [w EXCEPT !.inCycle = TRUE, !.pc = "zap", !.idx = idx,
                                  !.payoutId = Len(db.payouts) + 1,
                                  !.payAmount = payAmount]]

(***************************************************************************)
(* Amount validation                                                       *)
(***************************************************************************)
\* The verdict redeemCashuAndRecordSplitWithValidation starts with.
NoValidation == [isValid |-> TRUE, reason |-> "No validation performed"]

Verdict(isValid, reason) == [isValid |-> isValid, reason |-> reason]

\* validateCashuTokenAmount: a verdict from the amount, the expected game
\* score (<<>> when not given) and the player's history, which it reads with
\* getPlayer; whatever is thrown becomes a negative verdict.  The
\* recommendations are not modelled.
validateCashuTokenAmount(db, npub, tokenAmount, expectedGameScore, fault) ==
    IF getPlayer(db, npub, fault).threw
    THEN Verdict(FALSE, "Validation error")
    ELSE IF tokenAmount <= 0
    THEN Verdict(FALSE, "Token amount must be positive")
    ELSE IF tokenAmount < 21
    THEN Verdict(FALSE, "Token amount below minimum threshold")
    ELSE IF expectedGameScore # <<>> /\ expectedGameScore[1] # tokenAmount
    THEN Verdict(FALSE, "Game score mismatch with token amount")
    ELSE Verdict(TRUE, "Token amount appears valid")

\* "Still process but flag the validation issue".
processOnlyIfValid(validation) == validation.isValid

stillProcess(validation) == TRUE

(***************************************************************************)
(* Tool handlers                                                           *)
(***************************************************************************)
\* What a handler answers: its try block's value, or the structured error
\* of its catch block.
handlerRethrows(tool, threw, body) ==
    IF threw THEN [tool |-> tool, kind |-> "thrown", body |-> Null]
    ELSE [tool |-> tool, kind |-> "result", body |-> body]

handlerReturn(tool, threw, body) ==
    IF threw THEN [tool |-> tool, kind |-> "error_result", body |-> Null]
    ELSE [tool |-> tool, kind |-> "result", body |-> body]

(***************************************************************************)
(* Initial state                                                           *)
(***************************************************************************)
NoCall == [op |-> "none", npub |-> "", initials |-> "", sats |-> 0,
           refId |-> "", fault |-> "none"]
NoResult == [status |-> "none", totalSats |-> 0, isDuplicate |-> FALSE,
             sync |-> NoSync]
NoUpd == [totalSats |-> 0, isDuplicate |-> FALSE]
IdleReq == [pc |-> "idle", npub |-> "", initials |-> "", sats |-> 0,
            refId |-> "", upd |-> NoUpd, post |-> NoSync, status |-> "none"]

IdleTask == [pc |-> "idle", source |-> "", splits |-> <<>>,
             validation |-> NoValidation,
             pendingPayouts |-> <<>>, payoutIds |-> <<>>, finalized |-> <<>>]
NoReturn == [status |-> "none", donationRecorded |-> FALSE, donationSource |-> "",
             validation |-> NoValidation,
             splits |-> <<>>, payouts |-> <<>>, preventedDuplicate |-> FALSE,
             error |-> ""]
NoToolResult == [tool |-> "none", kind |-> "none", body |-> Null]
IdleWorker == [running |-> FALSE, timers |-> 0, configLoaded |-> FALSE, splits |-> 1,
               inCycle |-> FALSE, pc |-> "idle", idx |-> 0, payoutId |-> 0,
               payAmount |-> 0]

IdleLocal == [pc |-> "idle", token |-> "", amount |-> 0]
NoDispatch == [pc |-> "none"]

InitStore ==
    /\ leaderboard_entries = NoRows
    /\ leaderboard_updates = <<>>
    /\ lbCall = NoCall
    /\ lbResult = NoResult
    /\ uwv = [q \in Reqs |-> IdleReq]
    /\ donations = NoRows
    /\ split_accumulators = NoRows
    /\ payouts = <<>>
    /\ ing = [t \in Tasks |-> IdleTask]
    /\ ingReturn = NoReturn
    /\ worker = IdleWorker
    /\ cashu_access_requests = NoRows
    /\ toolResult = NoToolResult
    /\ cashu_local = NoRows
    /\ local = [t \in Tasks |-> IdleLocal]
    /\ localReturn = <<>>

InitTables == InitStore /\ dispatch = NoDispatch

\* The leaderboard tools called one at a time, every call recorded.
InitLb == InitTables /\ lbTrace = "calls"

\* The same with updateLeaderboardWithValidation calls in flight; the
\* direct calls are not recorded.
InitUwv == InitTables /\ lbTrace = "none"

\* The direct calls recorded in full ("calls"), the reconciliations only
\* ("sync"), the leaderboard handlers' answers ("tools"), or nothing
\* ("none").
Init == InitTables /\ lbTrace \in {"calls", "sync", "tools", "none"}

\* What a leaderboard handler leaves as its answer.
Answer(tool, threw, body) ==
    IF lbTrace = "tools" THEN handlerReturn(tool, threw, body) ELSE toolResult

(***************************************************************************)
(* Leaderboard operations                                                  *)
(***************************************************************************)
\* update_leaderboard with useValidation=false: one call of updateLeaderboard.
UpdateLeaderboardWith(in) ==
        LET r == updateLeaderboard(LbDb, in.npub, in.initials, in.sats,
                                   in.refId, in.fault)
        IN /\ leaderboard_entries' = r.db.entries
           /\ leaderboard_updates' = r.db.updates
           /\ lbCall' = IF lbTrace = "calls"
                        THEN [op |-> "updateLeaderboard", npub |-> in.npub,
                              initials |-> in.initials, sats |-> in.sats,
                              refId |-> in.refId, fault |-> in.fault]
                        ELSE IF lbTrace = "sync"
                        THEN [NoCall EXCEPT !.op = "updateLeaderboard"]
                        ELSE lbCall
           /\ lbResult' = IF lbTrace = "calls"
                          THEN [NoResult EXCEPT !.status = r.res.status,
                                                !.totalSats = r.res.totalSats,
                                                !.isDuplicate = r.res.isDuplicate]
                          ELSE IF lbTrace = "sync" THEN NoResult
                          ELSE lbResult
           /\ toolResult' = Answer("update_leaderboard", r.res.status = "error", Null)
           /\ UNCHANGED <<uwv, lbTrace, payVars, cashu_access_requests, sideVars>>

UpdateLeaderboard == \E in \in UpdateInputs : UpdateLeaderboardWith(in)

\* validate_player_score: one call of validateAndSyncPlayerScore.
ValidateAndSync ==
    \E npub \in Npubs \cup {""}, fault \in {"none", "entry"} :
        LET r == validateAndSyncPlayerScore(LbDb, npub, fault)
        IN /\ leaderboard_entries' = r.db.entries
           /\ leaderboard_updates' = r.db.updates
           /\ lbCall' = IF lbTrace # "none"
                        THEN [NoCall EXCEPT !.op = "validateAndSyncPlayerScore",
                                            !.npub = npub, !.fault = fault]
                        ELSE lbCall
           /\ lbResult' = IF lbTrace # "none"
                          THEN [NoResult EXCEPT !.status = r.res.status,
                                                !.sync = r.res.sync]
                          ELSE lbResult
           /\ toolResult' = Answer("validate_player_score", r.res.status = "error", Null)
           /\ UNCHANGED <<uwv, lbTrace, payVars, cashu_access_requests, sideVars>>

\* updateLeaderboardWithValidation, up to its first await: the input
\* validation, then the pre-validation, whose failure is swallowed
\* (.catch(() => null)).
UwvStartWith(q, in) ==
    /\ uwv[q].pc \in {"idle", "done"}
    /\ UNCHANGED <<lbTrace, lbCall, lbResult, payVars, cashu_access_requests, sideVars>>
    /\ LET c == [IdleReq EXCEPT !.npub = in.npub, !.initials = in.initials,
                                 !.sats = in.sats, !.refId = in.refId]
        IN IF invalidUpdateInput(in.npub, in.initials, in.sats, in.refId)
           THEN /\ uwv' = [uwv EXCEPT ![q] =
                       [c EXCEPT !.pc = "done", !.status = "error"]]
                /\ toolResult' = Answer("update_leaderboard", TRUE, Null)
                /\ UNCHANGED <<leaderboard_entries, leaderboard_updates>>
           ELSE LET f == IF in.fault = "none" THEN "none" ELSE "entry"
                    r == validateAndSyncPlayerScore(LbDb, in.npub, f)
                IN /\ leaderboard_entries' = r.db.entries
                   /\ leaderboard_updates' = r.db.updates
                   /\ uwv' = [uwv EXCEPT ![q] = [c EXCEPT !.pc = "update"]]
                   /\ UNCHANGED toolResult

UwvStart(q) == \E in \in UpdateInputs : UwvStartWith(q, in)

\* ... its second segment: await updateLeaderboard(npub, initials, sats, refId);
\* an error of the update ends the call with that error.
UwvUpdate(q) ==
    /\ uwv[q].pc = "update"
    /\ UNCHANGED <<lbTrace, lbCall, lbResult, payVars, cashu_access_requests, sideVars>>
    /\ \E fault \in Faults :
        LET c == uwv[q]
            r == updateLeaderboard(LbDb, c.npub, c.initials, c.sats, c.refId, fault)
        IN /\ leaderboard_entries' = r.db.entries
           /\ leaderboard_updates' = r.db.updates
           /\ uwv' = [uwv EXCEPT ![q] =
                  IF r.res.status = "ok"
                  THEN [c EXCEPT !.pc = "post",
                                 !.upd = [totalSats |-> r.res.totalSats,
                                          isDuplicate |-> r.res.isDuplicate]]
                  ELSE [c EXCEPT !.pc = "done", !.status = "error"]]
           /\ toolResult' = IF r.res.status = "ok" THEN toolResult
                            ELSE Answer("update_leaderboard", TRUE, Null)

\* ... its last segment: the post-validation, then the return of
\* {...updateResult, validationResult}.
UwvPost(q) ==
    /\ uwv[q].pc = "post"
    /\ UNCHANGED <<lbTrace, lbCall, lbResult, payVars, cashu_access_requests, sideVars>>
    /\ \E fault \in {"none", "entry"} :
        LET c == uwv[q]
            r == validateAndSyncPlayerScore(LbDb, c.npub, fault)
        IN /\ leaderboard_entries' = r.db.entries
           /\ leaderboard_updates' = r.db.updates
           /\ uwv' = [uwv EXCEPT ![q] =
                  IF r.res.status = "ok"
                  THEN [c EXCEPT !.pc = "done", !.post = r.res.sync, !.status = "ok"]
                  ELSE [c EXCEPT !.pc = "done", !.status = "error"]]
           /\ toolResult' = Answer("update_leaderboard", r.res.status = "error", Null)

UpdateLeaderboardWithValidation ==
    \E q \in Reqs : UwvStart(q) \/ UwvUpdate(q) \/ UwvPost(q)

\* check_leaderboard: one call of checkLeaderboard.
CheckLeaderboard ==
    \E fault \in BOOLEAN :
        LET r == checkLeaderboard(LbDb, fault)
        IN /\ toolResult' = handlerReturn("check_leaderboard", r.threw, Null)
           /\ UNCHANGED <<lbVars, payVars, cashu_access_requests, sideVars>>

\* get_player: getPlayerWithValidation (the reconciliation, then getPlayer)
\* or getPlayer alone; a null result is answered "Player not found".  The
\* only write is the reconciliation's transaction.
GetPlayer ==
    \E npub \in Npubs \cup {""}, useValidation \in BOOLEAN,
       syncFault \in {"none", "entry"}, fault \in BOOLEAN :
        LET v == IF useValidation
                 THEN validateAndSyncPlayerScore(LbDb, npub, syncFault)
                 ELSE [db |-> LbDb, res |-> [status |-> "ok", sync |-> NoSync]]
            r == IF v.res.status = "error"
                 THEN [threw |-> TRUE, found |-> FALSE, ret |-> Null]
                 ELSE getPlayer(v.db, npub, fault)
        IN /\ (~useValidation => syncFault = "none")
           /\ leaderboard_entries' = v.db.entries
           /\ leaderboard_updates' = v.db.updates
           /\ toolResult' = handlerReturn("get_player", r.threw,
                                IF r.found THEN "player" ELSE "not_found")
           /\ UNCHANGED <<lbTrace, lbCall, lbResult, uwv, payVars,
                          cashu_access_requests, sideVars>>

\* integrity_check: one call of performIntegrityCheck.
IntegrityCheck ==
    \E fault \in BOOLEAN :
        LET r == performIntegrityCheck(LbDb, fault)
        IN /\ toolResult' = handlerReturn("integrity_check", r.threw, r.ret)
           /\ UNCHANGED <<lbVars, payVars, cashu_access_requests, sideVars>>

(***************************************************************************)
(* Donation ingestion (cashu_access -> recordDonationAndSplitFromAmount)   *)
(***************************************************************************)
\* What recordDonationAndSplitFromAmount returns (status "error": it threw).
Returned(status, source, preventedDuplicate, splits, finalized) ==
    [status |-> status, donationRecorded |-> splits # <<>>,
     donationSource |-> source, splits |-> splits, payouts |-> finalized,
     preventedDuplicate |-> preventedDuplicate, error |-> "",
     validation |-> NoValidation]

\* ... and what it leaves when it throws: the error.
Threw(error) ==
    [Returned("error", "", FALSE, <<>>, <<>>) EXCEPT !.error = error]

\* The ids createPayoutRow returned while the transaction took the tables
\* from `before` to `after`, in creation order.  The dispatcher drops them
\* (payoutId is never read); the task record keeps them for reference only,
\* no action reads them.
createdIds(before, after) ==
    [k \in 1..(Len(after.payouts) - Len(before.payouts)) |->
        Len(before.payouts) + k]

\* The places at which the store can fail inside the donation transaction:
\* at the credit of the second payee, after both credits, at its last
\* statement.
DonationFaults == {"none", "credit", "insert", "intent"}

\* recordDonationAndSplitFromAmount up to its first await: the input
\* checks, the transaction that records and splits the donation and creates
\* the pending payouts, then the duplicate return, the return without
\* payouts, or the first payment call.
IngestStartCoreWith(cfg, t, token, amountSats, fault) ==
    /\ ing[t].pc = "idle"
    /\ LET source == sha256(token)
       IN IF token = ""
          THEN /\ fault = "none"
               /\ ingReturn' = Threw("encodedToken is required")
               /\ UNCHANGED <<donations, split_accumulators, payouts, ing>>
          ELSE IF amountSats <= 0
          THEN /\ fault = "none"
               /\ ingReturn' = Threw("amountSats must be > 0")
               /\ UNCHANGED <<donations, split_accumulators, payouts, ing>>
          ELSE LET tx == executeTransaction(PayDb,
                             recordDonationTxWith(cfg, PayDb, source, amountSats, fault))
               IN /\ Len(tx.db.payouts) <= MaxPayouts
                  /\ donations' = tx.db.donations
                  /\ split_accumulators' = tx.db.acc
                  /\ payouts' = tx.db.payouts
                  /\ IF tx.threw
                     THEN /\ ingReturn' = Threw("storage")
                          /\ UNCHANGED ing
                     ELSE IF tx.ret.preventedDuplicate
                     THEN /\ ingReturn' = Returned("ok", source, TRUE, <<>>, <<>>)
                          /\ UNCHANGED ing
                     ELSE IF tx.ret.pendingPayouts = <<>>
                     THEN /\ ingReturn' = Returned("ok", source, FALSE,
                                                   tx.ret.splits, <<>>)
                          /\ UNCHANGED ing
                     ELSE /\ ing' = [ing EXCEPT ![t] =
                                 [pc |-> "paying", source |-> source,
                                  validation |-> NoValidation,
                                  splits |-> tx.ret.splits,
                                  pendingPayouts |-> tx.ret.pendingPayouts,
                                  payoutIds |-> createdIds(PayDb, tx.db),
                                  finalized |-> <<>>]]
                          /\ UNCHANGED ingReturn

IngestStartCore(t, token, amountSats, fault) ==
    IngestStartCoreWith(getConfig, t, token, amountSats, fault)

IngestStartWith(t, token, amountSats, fault) ==
    /\ IngestStartCore(t, token, amountSats, fault)
    /\ UNCHANGED <<lbVars, gateVars, worker>>

IngestStart(t) ==
    \E token \in Tokens \cup {""}, amountSats \in (-1)..MaxAmount,
       fault \in DonationFaults :
        IngestStartWith(t, token, amountSats, fault)

\* ... one turn of its finalization loop, from the return of the payment
\* call for the next pending payout: look the row up by (npub, amount,
\* pending, newest first), finalize it, record the outcome, and go on to the
\* next payment call or return.  A failing finalize transaction ends the
\* call with that error.
IngestPay(t) ==
    /\ ing[t].pc = "paying"
    /\ UNCHANGED <<lbVars, gateVars, worker>>
    /\ \E fault \in {"none", "entry"} :
        LET c == ing[t]
            p == c.pendingPayouts[Len(c.finalized) + 1]
            attempt == requestInvoiceAndPayStub(p.npub, p.amount)
            rowId == newestPending(PayDb, p.npub, p.amount)
            run == IF fault # "none"
                   THEN [db |-> PayDb, threw |-> TRUE, ret |-> Null]
                   ELSE [db |-> IF attempt.ok
                                THEN finalizePayoutSuccess(PayDb, rowId, p.npub,
                                                           p.amount, attempt.externalRef)
                                ELSE finalizePayoutFailure(PayDb, rowId, "stub_failure"),
                         threw |-> FALSE, ret |-> TRUE]
            tx == IF rowId = 0
                  THEN [db |-> PayDb, threw |-> FALSE, ret |-> TRUE]
                  ELSE executeTransaction(PayDb, run)
            finalized == Append(c.finalized,
                             [npub |-> p.npub, amount |-> p.amount,
                              status |-> IF attempt.ok THEN "sent" ELSE "failed"])
        IN /\ (rowId = 0 => fault = "none")
           /\ donations' = tx.db.donations
           /\ split_accumulators' = tx.db.acc
           /\ payouts' = tx.db.payouts
           /\ IF tx.threw
              THEN /\ ingReturn' = Threw("storage")
                   /\ ing' = [ing EXCEPT ![t] = IdleTask]
              ELSE IF Len(finalized) = Len(c.pendingPayouts)
              THEN /\ ingReturn' = [Returned("ok", c.source, FALSE, c.splits, finalized)
                                       EXCEPT !.validation = c.validation]
                   /\ ing' = [ing EXCEPT ![t] = IdleTask]
              ELSE /\ ing' = [ing EXCEPT ![t].finalized = finalized]
                   /\ UNCHANGED ingReturn

Ingest == \E t \in Tasks : IngestStart(t) \/ IngestPay(t)

(***************************************************************************)
(* Access gate (tool cashu_access)                                         *)
(***************************************************************************)
\* What the Cashuwall can answer to a redemption request: no answer within
\* ten seconds, a failed connection, or a response, non-2xx ("http_error")
\* or 2xx ("ok"), whose body accepts the token or not and carries an amount
\* <<n>> or none.
ReplyAmounts == {0, 3}

Replies ==
    {[kind |-> k, accepted |-> FALSE, amount |-> <<>>] :
         k \in {"timeout", "network"}}
    \cup [kind : {"http_error", "ok"}, accepted : BOOLEAN,
          amount : {<<n>> : n \in ReplyAmounts} \cup {<<>>}]

AccessResult(decision, amount, reason) ==
    [decision |-> decision, amount |-> amount, reason |-> reason,
     mode |-> "cashuwall"]

\* typeof data.amount === 'number' ? data.amount : 0
amountOrZero(amount) == IF amount = <<>> THEN 0 ELSE amount[1]

\* A gate that reads the body of every response, whatever its status.
processCashuTokenIgnoringStatus(encodedToken, reply) ==
    IF encodedToken = ""
    THEN AccessResult("ACCESS_DENIED", 0, "encodedToken is required")
    ELSE IF reply.kind = "timeout"
    THEN AccessResult("ACCESS_DENIED", 0, "request_timeout")
    ELSE IF reply.kind = "network"
    THEN AccessResult("ACCESS_DENIED", 0, "fetch failed")
    ELSE IF reply.accepted
    THEN AccessResult("ACCESS_GRANTED", amountOrZero(reply.amount), "accepted")
    ELSE AccessResult("ACCESS_DENIED", amountOrZero(reply.amount),
                      "amount_below_threshold")

\* processCashuToken: never throws, every failure is a denial with amount 0.
processCashuToken(encodedToken, reply) ==
    IF encodedToken = ""
    THEN AccessResult("ACCESS_DENIED", 0, "encodedToken is required")
    ELSE IF reply.kind = "timeout"
    THEN AccessResult("ACCESS_DENIED", 0, "request_timeout")
    ELSE IF reply.kind = "network"
    THEN AccessResult("ACCESS_DENIED", 0, "fetch failed")
    ELSE IF reply.kind = "http_error"
    THEN AccessResult("ACCESS_DENIED", 0, "HTTP 500")
    ELSE IF reply.accepted
    THEN AccessResult("ACCESS_GRANTED", amountOrZero(reply.amount), "accepted")
    ELSE AccessResult("ACCESS_DENIED", amountOrZero(reply.amount),
                      "amount_below_threshold")

\* The condition under which the handler starts the donation ingestion.
anyPositiveAmount(result) == result.amount > 0

grantedWithAmount(result) ==
    result.decision = "ACCESS_GRANTED" /\ result.amount > 0

\* An insert that leaves an existing row as it is.
insertOrIgnoreAccessRequest(table, encodedToken, result) ==
    IF sha256(encodedToken) \in DOMAIN table THEN table
    ELSE Put(table, sha256(encodedToken),
             [decision |-> result.decision, amount_sats |-> result.amount,
              reason |-> result.reason])

\* The upsert of the decision under the token's hash.
persistAccessRequest(table, encodedToken, result) ==
    Put(table, sha256(encodedToken),
        [decision |-> result.decision, amount_sats |-> result.amount,
         reason |-> result.reason])

\* A handler without the try/catch around the upsert: a failure there
\* reaches the outer catch, which answers a denial of mode 'error'.
decisionUnlessPersistFailed(result, persistFault) ==
    IF persistFault
    THEN [decision |-> "ACCESS_DENIED", amount |-> 0,
          reason |-> "error: persist", mode |-> "error"]
    ELSE result

\* catch (err) { console.warn("[cashu_access] Failed to persist ...") }: a
\* failure of the upsert does not leave its try block, the handler answers
\* the gate's result.
decisionReturned(result, persistFault) == result

\* The cashu_access handler from the Cashuwall's reply on: the decision is
\* persisted (a failure there is only logged), the ingestion of a granted
\* token of positive amount is started without being awaited (it runs to its
\* first await within this step, as task t), and the decision is returned.
CashuAccessWith(t, encodedToken, reply, persistFault, fault) ==
    LET result == processCashuToken(encodedToken, reply)
    IN /\ cashu_access_requests' =
              IF persistFault THEN cashu_access_requests
              ELSE persistAccessRequest(cashu_access_requests, encodedToken, result)
       /\ IF grantedWithAmount(result)
          THEN IngestStartCore(t, encodedToken, result.amount, fault)
          ELSE /\ fault = "none"
               /\ UNCHANGED <<donations, split_accumulators, payouts, ing, ingReturn>>
       /\ toolResult' = handlerReturn("cashu_access", FALSE,
                                      decisionReturned(result, persistFault))
       /\ UNCHANGED <<lbVars, worker, sideVars>>

CashuAccess(t) ==
    \E encodedToken \in Tokens \cup {""}, reply \in Replies,
       persistFault \in BOOLEAN, fault \in DonationFaults :
        CashuAccessWith(t, encodedToken, reply, persistFault, fault)

(***************************************************************************)
(* Redemption with amount validation                                       *)
(***************************************************************************)
\* redeemCashuAndRecordSplitWithValidation from the Cashuwall's reply up to
\* its first payment call or its return: the rejection of a token that is
\* not granted a positive amount, the validation when a player is given
\* (playerNpub # ""), the donation transaction, then the return for a
\* duplicate or without payouts.  Its finalization loop is the one of
\* recordDonationAndSplitFromAmount (IngestPay).
RedeemValidatedWith(t, encodedToken, reply, playerNpub, expectedGameScore, vfault, fault) ==
    /\ ing[t].pc = "idle"
    /\ UNCHANGED <<lbVars, gateVars, worker>>
    /\ LET res == processCashuToken(encodedToken, reply)
           source == sha256(encodedToken)
           validation ==
               IF playerNpub = "" THEN NoValidation
               ELSE validateCashuTokenAmount(LbDb, playerNpub, res.amount,
                                             expectedGameScore, vfault)
           tx == executeTransaction(PayDb,
                     recordDonationTx(PayDb, source, res.amount, fault))
       IN IF ~grantedWithAmount(res)
          THEN /\ ~vfault /\ fault = "none"
               /\ ingReturn' = [Returned("rejected", "", FALSE, <<>>, <<>>)
                                   EXCEPT !.validation =
                                       Verdict(FALSE, "Cashu token rejected")]
               /\ UNCHANGED <<donations, split_accumulators, payouts, ing>>
          ELSE IF ~stillProcess(validation)
          THEN /\ fault = "none"
               /\ ingReturn' = [Returned("rejected", "", FALSE, <<>>, <<>>)
                                   EXCEPT !.validation = validation]
               /\ UNCHANGED <<donations, split_accumulators, payouts, ing>>
          ELSE /\ (playerNpub = "" => ~vfault)
               /\ Len(tx.db.payouts) <= MaxPayouts
               /\ donations' = tx.db.donations
               /\ split_accumulators' = tx.db.acc
               /\ payouts' = tx.db.payouts
               /\ IF tx.threw
                  THEN /\ ingReturn' = Threw("storage")
                       /\ UNCHANGED ing
                  ELSE IF tx.ret.preventedDuplicate
                  THEN /\ ingReturn' = [Returned("rejected", source, TRUE, <<>>, <<>>)
                                           EXCEPT !.validation = validation]
                       /\ UNCHANGED ing
                  ELSE IF tx.ret.pendingPayouts = <<>>
                  THEN /\ ingReturn' = [Returned("ok", source, FALSE,
                                                  tx.ret.splits, <<>>)
                                           EXCEPT !.validation = validation]
                       /\ UNCHANGED ing
                  ELSE /\ ing' = [ing EXCEPT ![t] =
                              [pc |-> "paying", source |-> source,
                               validation |-> validation,
                               splits |-> tx.ret.splits,
                               pendingPayouts |-> tx.ret.pendingPayouts,
                               payoutIds |-> createdIds(PayDb, tx.db),
                               finalized |-> <<>>]]
                       /\ UNCHANGED ingReturn

\* The expected game scores a caller gives: none, the model's donation, the
\* minimum game cost.
ExpectedGameScores == {<<>>, <<3>>, <<21>>}

\* The replies to a redemption in which the token is worth a game.
GameReplies ==
    Replies \cup {[kind |-> "ok", accepted |-> TRUE, amount |-> <<21>>]}

RedeemValidated(t) ==
    \E encodedToken \in Tokens \cup {""}, reply \in GameReplies,
       playerNpub \in Npubs \cup {""}, expectedGameScore \in ExpectedGameScores,
       vfault \in BOOLEAN, fault \in DonationFaults :
        RedeemValidatedWith(t, encodedToken, reply, playerNpub,
                            expectedGameScore, vfault, fault)

(***************************************************************************)
(* Payout worker                                                           *)
(***************************************************************************)
\* startPayoutWorker: a second call returns at once; the first one loads
\* the configuration (file k of SplitsFiles, or fails to) and starts the
\* interval timer.
StartPayoutWorkerWith(ok, k) ==
    /\ UNCHANGED <<lbVars, gateVars, donations, split_accumulators, payouts, ing, ingReturn>>
    /\ worker' = IF worker.running THEN worker
                 ELSE [worker EXCEPT !.running = TRUE, !.configLoaded = ok,
                                     !.splits = IF ok THEN k ELSE @,
                                     !.timers = @ + 1]

\* ... with the first file.
StartPayoutWorker == \E ok \in BOOLEAN : StartPayoutWorkerWith(ok, 1)

\* if (inCycle) return; // prevent overlapping cycles
overlappingAllowed(w) == FALSE

overlapping(w) == w.inCycle

\* One firing of the interval timer: nothing while a cycle is in progress
\* or without a configuration; otherwise the cycle runs to its first
\* payment call or to its end.
WorkerTickWith(failing) ==
    /\ worker.timers > 0
    /\ UNCHANGED <<lbVars, gateVars, ing, ingReturn>>
    /\ LET r == IF overlapping(worker) \/ ~worker.configLoaded
                THEN [db |-> PayDb, w |-> worker]
                ELSE cycleFrom(PayDb, worker, 1, failing)
       IN /\ Len(r.db.payouts) <= MaxPayouts
          /\ donations' = r.db.donations
          /\ split_accumulators' = r.db.acc
          /\ payouts' = r.db.payouts
          /\ worker' = r.w

WorkerTick == \E failing \in SUBSET (1..Len(loadedConfig.entries)) : WorkerTickWith(failing)

\* The return of zap() inside a cycle: the pending payout is marked sent
\* (and the balance decremented) or failed, by its id; a failing transaction
\* is caught by the entry's try/catch.  The loop then goes on.
WorkerZapReturnWith(ok, fault, failing) ==
    /\ worker.pc = "zap"
    /\ UNCHANGED <<lbVars, gateVars, ing, ingReturn>>
    /\ LET entry == loadedConfig.entries[worker.idx]
           run == IF fault # "none"
                  THEN [db |-> PayDb, threw |-> TRUE, ret |-> Null]
                  ELSE [db |-> IF ok
                               THEN markPayoutSent(PayDb, worker.payoutId,
                                        entry.npub, worker.payAmount, "zap_ref")
                               ELSE markPayoutFailed(PayDb, worker.payoutId,
                                        "zap_failed"),
                        threw |-> FALSE, ret |-> TRUE]
           tx == executeTransaction(PayDb, run)
           r == cycleFrom(tx.db, worker, afterZap(worker.idx, ~ok \/ tx.threw),
                          failing)
       IN /\ Len(r.db.payouts) <= MaxPayouts
          /\ donations' = r.db.donations
          /\ split_accumulators' = r.db.acc
          /\ payouts' = r.db.payouts
          /\ worker' = r.w

WorkerZapReturn ==
    \E ok \in BOOLEAN, fault \in {"none", "entry"},
       failing \in SUBSET (1..Len(loadedConfig.entries)) :
        WorkerZapReturnWith(ok, fault, failing)

PayoutWorker == StartPayoutWorker \/ WorkerTick \/ WorkerZapReturn

InitPay == InitTables /\ lbTrace = "none"

\* Donation ingestions overlapping one another and the payout worker's cycles.
NextPay == Ingest \/ PayoutWorker

SpecPay == InitPay /\ [][NextPay]_vars

\* Donation ingestions one at a time, the payout worker not started.
NextSeq == IngestStart(1) \/ IngestPay(1)

SpecSeq == InitPay /\ [][NextSeq]_vars

\* The same with every ingestion running to its return: no turn of the
\* finalization loop ends the call with an error.
IngestPayCompletes(t) ==
    /\ IngestPay(t)
    /\ ~(ing'[t].pc = "idle" /\ ingReturn'.status = "error")

NextSeqDone == IngestStart(1) \/ IngestPayCompletes(1)

SpecSeqDone == InitPay /\ [][NextSeqDone]_vars

NextLb == UpdateLeaderboard \/ ValidateAndSync

SpecLb == InitLb /\ [][NextLb]_vars

NextUwv == UpdateLeaderboard \/ ValidateAndSync \/ UpdateLeaderboardWithValidation

SpecUwv == InitUwv /\ [][NextUwv]_vars

\* A write to leaderboard_entries from outside the application (a manual
\* edit of the database file): some player's stored total becomes some other
\* value.
DriftTotals == 0..(2 * MaxSats + 1)

Perturb ==
    /\ \E npub \in DOMAIN leaderboard_entries, total \in DriftTotals :
          /\ total # leaderboard_entries[npub].total_sats_lost
          /\ leaderboard_entries' =
                [leaderboard_entries EXCEPT ![npub].total_sats_lost = total]
    /\ lbCall' = [NoCall EXCEPT !.op = "perturb"]
    /\ lbResult' = NoResult
    /\ UNCHANGED <<leaderboard_updates, lbTrace, uwv, payVars, gateVars>>

\* The leaderboard tools called one at a time on a store that is also
\* written from outside; the reconciliations are recorded.
InitDrift == InitTables /\ lbTrace = "sync"

NextDrift == UpdateLeaderboard \/ ValidateAndSync \/ Perturb

SpecDrift == InitDrift /\ [][NextDrift]_vars

\* Callers of the two write operations, one call at a time, nothing
\* recorded of the leaderboard calls; the donations are of one token, with
\* no amount, a non-positive one or 1 sat (no payout follows).
IngestSmall ==
    \E token \in {"", "t1"}, amountSats \in (-1)..1 :
        IngestStartWith(1, token, amountSats, "none")

NextInput == UpdateLeaderboard \/ IngestSmall

SpecInput == InitPay /\ [][NextInput]_vars

\* One ingestion at a time next to the payout worker.
NextWorker == IngestStart(1) \/ IngestPay(1) \/ PayoutWorker

SpecWorker == InitPay /\ [][NextWorker]_vars

\* The same while the payment endpoint is down: every zap() call returns
\* ok: false (a refused connection, a timeout, a non-2xx answer).
WorkerZapFails ==
    \E fault \in {"none", "entry"},
       failing \in SUBSET (1..Len(loadedConfig.entries)) :
        WorkerZapReturnWith(FALSE, fault, failing)

NextDown ==
    \/ IngestStart(1) \/ IngestPay(1)
    \/ StartPayoutWorker \/ WorkerTick \/ WorkerZapFails

SpecDown == InitPay /\ [][NextDown]_vars

\* The access gate asked about one token or none, with the ingestion it
\* starts.
CashuAccessSmall ==
    \E encodedToken \in {"", "t1"}, reply \in Replies,
       persistFault \in BOOLEAN, fault \in DonationFaults :
        CashuAccessWith(1, encodedToken, reply, persistFault, fault)

NextAccess == CashuAccessSmall \/ IngestPay(1)

SpecAccess == InitPay /\ [][NextAccess]_vars

(***************************************************************************)
(* Cashu gate in local mode (CASHU_LOCAL=TRUE)                             *)
(***************************************************************************)
\* What callers present: nothing, blanks, two tokens, and the first token
\* with a leading blank.
LocalTokens == {"", " ", "t1", " t1", "t2"}

\* String.prototype.trim on those.
trim(s) == IF s = " " THEN "" ELSE IF s = " t1" THEN "t1" ELSE s

\* decodeCashuAmount: the sum of the positive proof amounts of the token, 0
\* standing for null (t1 carries 2 sats, t2 does not decode).
decodeCashuAmount(encodedToken) == IF trim(encodedToken) = "t1" THEN 2 ELSE 0

\* decodedAmount && decodedAmount > 0 ? decodedAmount
\*   : (typeof minAmount === "number" && minAmount > 0 ? minAmount : 21)
localAmount(decodedAmount, minAmount) ==
    IF decodedAmount > 0 THEN decodedAmount
    ELSE IF minAmount > 0 THEN minAmount ELSE 21

LocalResult(decision, amount, reason, mode) ==
    [decision |-> decision, amount |-> amount, reason |-> reason, mode |-> mode]

\* A call returns: its answer is added to the answers returned so far.
LocalReturns(t, token, result) ==
    /\ localReturn' = Append(localReturn, [token |-> token, result |-> result])
    /\ local' = [local EXCEPT ![t] = IdleLocal]

\* processCashuToken to its first await: the check of the token, then
\* processTokenLocally up to fs.mkdir.
LocalStartWith(t, encodedToken, minAmount) ==
    /\ local[t].pc = "idle"
    /\ Len(localReturn) + Cardinality({u \in Tasks : local[u].pc # "idle"}) < MaxCalls
    /\ UNCHANGED <<lbVars, payVars, cashu_access_requests, toolResult,
                   cashu_local, dispatch>>
    /\ LET trimmedToken == trim(encodedToken)
       IN IF trimmedToken = ""
          THEN LocalReturns(t, trimmedToken,
                   LocalResult("ACCESS_DENIED", 0,
                       "encodedToken is required (cashu... string)", "cashuwall"))
          ELSE /\ local' = [local EXCEPT ![t] =
                      [pc |-> "mkdir", token |-> trimmedToken,
                       amount |-> localAmount(decodeCashuAmount(trimmedToken),
                                              minAmount)]]
               /\ UNCHANGED localReturn

LocalStart(t) ==
    \E encodedToken \in LocalTokens, minAmount \in {0, 1} :
        LocalStartWith(t, encodedToken, minAmount)

\* fs.mkdir has ended: the directory is there, or the call returns
\* storage_unavailable.
LocalMkdirWith(t, ok) ==
    /\ local[t].pc = "mkdir"
    /\ UNCHANGED <<lbVars, payVars, cashu_access_requests, toolResult,
                   cashu_local, dispatch>>
    /\ IF ok
       THEN /\ local' = [local EXCEPT ![t].pc = "access"]
            /\ UNCHANGED localReturn
       ELSE LocalReturns(t, local[t].token,
                LocalResult("ACCESS_DENIED", 0, "storage_unavailable", "local"))

LocalMkdir(t) == \E ok \in BOOLEAN : LocalMkdirWith(t, ok)

\* fs.access has ended: the token's file is there and the call returns
\* token_already_used, or it is not and the call goes on to fs.writeFile.
LocalAccess(t) ==
    /\ local[t].pc = "access"
    /\ UNCHANGED <<lbVars, payVars, cashu_access_requests, toolResult,
                   cashu_local, dispatch>>
    /\ IF sha256(local[t].token) \in DOMAIN cashu_local
       THEN LocalReturns(t, local[t].token,
                LocalResult("ACCESS_DENIED", 0, "token_already_used", "local"))
       ELSE /\ local' = [local EXCEPT ![t].pc = "write"]
            /\ UNCHANGED localReturn

\* fs.writeFile has ended: the record is in the token's file (written over
\* what was there) and the call returns ACCESS_GRANTED, or the write failed
\* and it returns storage_write_failed.
LocalWriteWith(t, ok) ==
    /\ local[t].pc = "write"
    /\ UNCHANGED <<lbVars, payVars, cashu_access_requests, toolResult, dispatch>>
    /\ IF ok
       THEN /\ cashu_local' = Put(cashu_local, sha256(local[t].token),
                                  [token |-> local[t].token,
                                   amount |-> local[t].amount])
            /\ LocalReturns(t, local[t].token,
                   LocalResult("ACCESS_GRANTED", local[t].amount,
                               "accepted_local_mode", "local"))
       ELSE /\ UNCHANGED cashu_local
            /\ LocalReturns(t, local[t].token,
                   LocalResult("ACCESS_DENIED", 0, "storage_write_failed", "local"))

LocalWrite(t) == \E ok \in BOOLEAN : LocalWriteWith(t, ok)

ProcessTokenLocally(t) ==
    LocalStart(t) \/ LocalMkdir(t) \/ LocalAccess(t) \/ LocalWrite(t)

\* Calls in local mode overlapping one another.
NextLocal == \E t \in Tasks : ProcessTokenLocally(t)

SpecLocal == InitPay /\ [][NextLocal]_vars

(***************************************************************************)
(* The chunked dispatch loop, turn by turn                                 *)
(***************************************************************************)
DEFAULT_THRESHOLD == 1000

\* Values of SPLIT_THRESHOLD_SATS: unset (or empty), numerals, and a string
\* that is not a numeral.
ThresholdSettings == {"", "0", "-1", "1", "2", "abc"}

\* Number(s) on those strings: a number, or NaN.
Number(s) ==
    IF s = "0" THEN [nan |-> FALSE, n |-> 0]
    ELSE IF s = "-1" THEN [nan |-> FALSE, n |-> -1]
    ELSE IF s = "1" THEN [nan |-> FALSE, n |-> 1]
    ELSE IF s = "2" THEN [nan |-> FALSE, n |-> 2]
    ELSE [nan |-> TRUE, n |-> 0]

\* getConfig().threshold under a setting of SPLIT_THRESHOLD_SATS:
\* Number(process.env.SPLIT_THRESHOLD_SATS || DEFAULT_THRESHOLD).
thresholdOf(setting) ==
    IF setting = "" THEN [nan |-> FALSE, n |-> DEFAULT_THRESHOLD]
    ELSE Number(setting)

\* owed >= threshold: false when the threshold is NaN.
owedReaches(owed, threshold) == ~threshold.nan /\ owed >= threshold.n

\* The store with one balance: what the loop is called on.
DispatchDb(npub, owed) ==
    [donations |-> NoRows, acc |-> Put(NoRows, npub, owed), payouts |-> <<>>]

\* A call of triggerPayoutsIfThreshold that has not started: the setting,
\* the payee and the payee's balance are the inputs.
InitDispatch ==
    /\ InitStore
    /\ lbTrace = "none"
    /\ \E setting \in ThresholdSettings, npub \in Payees, owed \in 0..(MaxPayouts - 1) :
          dispatch = [pc |-> "call", setting |-> setting, npub |-> npub,
                      db |-> DispatchDb(npub, owed)]

\* const out = []; let owed = getOwed(db, npub);
DispatchEnter ==
    /\ dispatch.pc = "call"
    /\ dispatch' = [pc |-> "loop", setting |-> dispatch.setting,
                    npub |-> dispatch.npub, db |-> dispatch.db,
                    threshold |-> thresholdOf(dispatch.setting),
                    owed |-> getOwed(dispatch.db, dispatch.npub),
                    out |-> <<>>]
    /\ UNCHANGED <<lbVars, payVars, cashu_access_requests, toolResult,
                   cashu_local, local, localReturn>>

\* One turn of while (owed >= threshold): a pending row of the threshold's
\* amount, out.push, owed -= threshold.  The rows are counted up to
\* MaxPayouts, and owed up to twice that.
DispatchTurn ==
    /\ dispatch.pc = "loop"
    /\ owedReaches(dispatch.owed, dispatch.threshold)
    /\ Len(dispatch.db.payouts) < MaxPayouts
    /\ dispatch.owed - dispatch.threshold.n <= 2 * MaxPayouts
    /\ dispatch' = [dispatch EXCEPT
          !.db = createPayoutRow(@, dispatch.npub, dispatch.threshold.n),
          !.out = Append(@, [npub |-> dispatch.npub,
                             amount |-> dispatch.threshold.n,
                             status |-> "pending"]),
          !.owed = @ - dispatch.threshold.n]
    /\ UNCHANGED <<lbVars, payVars, cashu_access_requests, toolResult,
                   cashu_local, local, localReturn>>

\* The loop's condition is false: return { payouts: out }.
DispatchReturn ==
    /\ dispatch.pc = "loop"
    /\ ~owedReaches(dispatch.owed, dispatch.threshold)
    /\ dispatch' = [dispatch EXCEPT !.pc = "done"]
    /\ UNCHANGED <<lbVars, payVars, cashu_access_requests, toolResult,
                   cashu_local, local, localReturn>>

NextDispatch == DispatchEnter \/ DispatchTurn \/ DispatchReturn

\* The loop runs on: no turn of it waits for anything.
SpecDispatch ==
    /\ InitDispatch /\ [][NextDispatch]_vars
    /\ WF_vars(DispatchEnter) /\ WF_vars(DispatchTurn) /\ WF_vars(DispatchReturn)

\* Donations of 1 or 3 sats, one at a time and without storage faults, next
\* to a payout worker that has loaded the second splits file (or none).
StartPayoutWorkerSecond == \E ok \in BOOLEAN : StartPayoutWorkerWith(ok, 2)

IngestFew ==
    \E token \in Tokens, amountSats \in {1, 3} :
        IngestStartWith(1, token, amountSats, "none")

NextCycle ==
    \/ IngestFew \/ IngestPay(1)
    \/ StartPayoutWorkerSecond \/ WorkerTick \/ WorkerZapReturn

SpecCycle == InitPay /\ [][NextCycle]_vars

\* Donations under a threshold of 3 sats, without storage faults, that only
\* credit the balances (no balance reaches the threshold, the dispatcher
\* creates nothing), next to the payout worker with either splits file.
HighThresholdConfig == [getConfig EXCEPT !.threshold = 3]

IngestCredit ==
    /\ \E token \in Tokens, amountSats \in 1..MaxAmount :
          IngestStartCoreWith(HighThresholdConfig, 1, token, amountSats, "none")
    /\ Len(payouts') = Len(payouts)
    /\ UNCHANGED <<lbVars, gateVars, worker>>

NextDrain ==
    \/ IngestCredit
    \/ StartPayoutWorker \/ StartPayoutWorkerSecond
    \/ WorkerTick \/ WorkerZapReturn

SpecDrain == InitPay /\ [][NextDrain]_vars

\* The integrity check on a store that is written by well-formed updates
\* without storage faults and from outside; each handler's answer replaces
\* the last one.
IntegrityInputs ==
    {in \in WellFormedUpdates : in.initials = "abc" /\ in.fault = "none"}

InitIntegrity == InitTables /\ lbTrace = "tools"

NextIntegrity ==
    \/ \E in \in IntegrityInputs : UpdateLeaderboardWith(in)
    \/ Perturb
    \/ IntegrityCheck

SpecIntegrity == InitIntegrity /\ [][NextIntegrity]_vars

\* Every tool: the leaderboard tools about one player and one reference, or
\* the access gate.
ToolInputs ==
    {in \in UpdateInputs :
         in.npub # "p2" /\ in.initials # "XYZ" /\ in.refId # "r2"}

InitTools == InitTables /\ lbTrace \in {"tools", "none"}

NextTools ==
    \/ /\ lbTrace = "tools"
       /\ \/ \E in \in ToolInputs : UpdateLeaderboardWith(in)
          \/ \E in \in ToolInputs : UwvStartWith(1, in)
          \/ UwvUpdate(1)
          \/ UwvPost(1)
          \/ ValidateAndSync
          \/ CheckLeaderboard
          \/ GetPlayer
          \/ IntegrityCheck
    \/ /\ lbTrace = "none"
       /\ (CashuAccessSmall \/ IngestPay(1))

SpecTools == InitTools /\ [][NextTools]_vars

\* The same with the scheduling the runtime gives: a payment call that was
\* issued returns and its continuation runs (the ingestion's loop, the
\* worker's cycle), and the interval timer keeps firing.
SpecLive ==
    /\ InitPay /\ [][NextWorker]_vars
    /\ WF_vars(IngestPay(1))
    /\ WF_vars(WorkerZapReturn)
    /\ WF_vars(WorkerTick)

\* One validated update at a time for one player, whose stored total may be
\* written from outside between two calls (never during one).
RepairInputs ==
    {in \in WellFormedUpdates : in.npub = "p1" /\ in.initials = "abc"}

PerturbBetweenCalls == uwv[1].pc \in {"idle", "done"} /\ Perturb

NextRepair ==
    \/ \E in \in RepairInputs : UwvStartWith(1, in)
    \/ UwvUpdate(1)
    \/ UwvPost(1)
    \/ PerturbBetweenCalls

SpecRepair == InitUwv /\ [][NextRepair]_vars

\* Redemptions with validation, one at a time, of tokens worth 3 sats or a
\* game, for a player who may have played.
NextValidated ==
    \/ RedeemValidated(1) \/ IngestPay(1)
    \/ \E in \in ToolInputs : UpdateLeaderboardWith(in)

SpecValidated == InitPay /\ [][NextValidated]_vars

Next ==
    \/ NextUwv \/ CheckLeaderboard \/ GetPlayer \/ IntegrityCheck
    \/ NextPay \/ StartPayoutWorkerSecond
    \/ \E task \in Tasks : RedeemValidated(task) \/ \E t \in Tasks : CashuAccess(t)

Spec == Init /\ [][Next]_vars

(***************************************************************************)
(* Properties of the leaderboard ledger                                    *)
(***************************************************************************)
RefRecorded(refId) ==
    \E i \in 1..Len(leaderboard_updates) : leaderboard_updates[i].ref_id = refId

StoredTotal(npub) ==
    IF npub \in DOMAIN leaderboard_entries
    THEN leaderboard_entries[npub].total_sats_lost ELSE 0

StoredTotalAfter(npub) ==
    IF npub \in DOMAIN leaderboard_entries'
    THEN leaderboard_entries'[npub].total_sats_lost ELSE 0

WellFormedCall(c) == ~invalidUpdateInput(c.npub, c.initials, c.sats, c.refId)

\* C1: a well-formed updateLeaderboard call whose reference id is already
\* recorded is answered isDuplicate=true and changes neither table; one whose
\* reference id is new and that succeeds adds exactly its own amount to the
\* total of its player (and to no other total) and records exactly one row
\* for that reference id; no reference id is ever recorded twice.
C1_Step ==
    (lbCall'.op = "updateLeaderboard" /\ WellFormedCall(lbCall')) =>
        LET c == lbCall' IN
        /\ RefRecorded(c.refId) =>
              /\ lbResult'.status = "ok" /\ lbResult'.isDuplicate
              /\ UNCHANGED <<leaderboard_entries, leaderboard_updates>>
        /\ (~RefRecorded(c.refId) /\ lbResult'.status = "ok") =>
              /\ ~lbResult'.isDuplicate
              /\ StoredTotalAfter(c.npub) = StoredTotal(c.npub) + c.sats
              /\ \A n \in Npubs \ {c.npub} : StoredTotalAfter(n) = StoredTotal(n)
              /\ Len(leaderboard_updates') = Len(leaderboard_updates) + 1
              /\ SubSeq(leaderboard_updates', 1, Len(leaderboard_updates))
                    = leaderboard_updates
              /\ leaderboard_updates'[Len(leaderboard_updates')].ref_id = c.refId
              /\ leaderboard_updates'[Len(leaderboard_updates')].sats_lost = c.sats
        /\ \A i, j \in 1..Len(leaderboard_updates') :
              leaderboard_updates'[i].ref_id = leaderboard_updates'[j].ref_id => i = j

C1_EachRefIdCountedOnce == [][C1_Step]_vars

\* A retry of a recorded reference id with another amount has been answered
\* as a duplicate, and its player's total is still the first amount.
C1_Witness ==
    /\ lbCall.op = "updateLeaderboard" /\ lbResult.status = "ok"
    /\ lbResult.isDuplicate
    /\ \E i \in 1..Len(leaderboard_updates) :
          /\ leaderboard_updates[i].ref_id = lbCall.refId
          /\ leaderboard_updates[i].npub = lbCall.npub
          /\ leaderboard_updates[i].sats_lost # lbCall.sats
          /\ StoredTotal(lbCall.npub) = leaderboard_updates[i].sats_lost

\* C2: every player that has a leaderboard entry has total_sats_lost equal to
\* the sum of sats_lost over the player's recorded updates, in every state
\* between the segments of interleaved updateLeaderboard,
\* validateAndSyncPlayerScore and updateLeaderboardWithValidation calls.
C2_TotalEqualsSumOfUpdates ==
    \A n \in DOMAIN leaderboard_entries :
        leaderboard_entries[n].total_sats_lost
            = calculatedTotal(leaderboard_updates, n)

\* An updateLeaderboardWithValidation call is between its update and its
\* post-validation while its player already has two recorded updates.
C2_Witness ==
    \E q \in Reqs :
        /\ uwv[q].pc = "post"
        /\ Cardinality({i \in 1..Len(leaderboard_updates) :
                           leaderboard_updates[i].npub = uwv[q].npub}) >= 2
        /\ StoredTotal(uwv[q].npub) >= 2

\* C3: when a statement of the updateLeaderboard transaction fails, the call
\* ends with an error and neither table has changed: no update row and no
\* change of any player total or entry remains.
C3_Step ==
    (/\ lbCall'.op = "updateLeaderboard" /\ WellFormedCall(lbCall')
     /\ lbCall'.fault # "none" /\ ~RefRecorded(lbCall'.refId)) =>
        /\ lbResult'.status = "error"
        /\ UNCHANGED <<leaderboard_entries, leaderboard_updates>>

C3_FailedTransactionRolledBack == [][C3_Step]_vars

\* The insert of the update record has failed for a player that already had
\* an entry, after the entry write of the same transaction.
C3_Witness ==
    /\ lbCall.op = "updateLeaderboard" /\ lbCall.fault = "insert"
    /\ lbResult.status = "error"
    /\ ~RefRecorded(lbCall.refId)
    /\ lbCall.npub \in DOMAIN leaderboard_entries
    /\ StoredTotal(lbCall.npub) = calculatedTotal(leaderboard_updates, lbCall.npub)

(***************************************************************************)
(* Donations, balances and payment intents                                 *)
(***************************************************************************)
PayDbAfter == [donations |-> donations', acc |-> split_accumulators',
               payouts |-> payouts']

Owed(npub) == getOwed(PayDb, npub)
OwedAfter(npub) == getOwed(PayDbAfter, npub)

\* The donation rows written by the step, the payout rows it appended.
NewSources == DOMAIN donations' \ DOMAIN donations
NewRowIds == (Len(payouts) + 1)..Len(payouts')

\* An ingestion that returned from its first segment (no payment call).
ReturnedAtOnce == ing' = ing /\ ingReturn' # ingReturn

\* C4: each token fingerprint credits the payees' balances at most once: a
\* donation row, once written, stays as it is, and a balance grows only in
\* a step that writes the row of a fingerprint not recorded before; an
\* ingestion presenting a recorded fingerprint reports
\* preventedDuplicate=true with no splits and no payouts and changes no
\* donation row, no balance and no payment intent.
C4_Step ==
    /\ \A s \in DOMAIN donations :
          s \in DOMAIN donations' /\ donations'[s] = donations[s]
    /\ (\E n \in Payees : OwedAfter(n) > Owed(n)) =>
          /\ Cardinality(NewSources) = 1
          /\ \A s \in NewSources :
                OwedAfter(getConfig.npub1) - Owed(getConfig.npub1)
                  + OwedAfter(getConfig.npub2) - Owed(getConfig.npub2)
                = donations'[s]
    /\ ( /\ ReturnedAtOnce
         /\ ingReturn'.status = "ok"
         /\ ingReturn'.donationSource \in DOMAIN donations ) =>
          /\ ingReturn'.preventedDuplicate = TRUE
          /\ ingReturn'.splits = <<>>
          /\ ingReturn'.payouts = <<>>
          /\ ingReturn'.donationRecorded = FALSE
          /\ UNCHANGED <<donations, split_accumulators, payouts>>

C4_DonationCreditedOnce == [][C4_Step]_vars

\* A recorded donation of 3 presented again: the duplicate is reported and
\* the balances and sent payouts still account for one credit of 3.
C4_Witness ==
    /\ ingReturn.status = "ok"
    /\ ingReturn.preventedDuplicate = TRUE
    /\ DOMAIN donations = {ingReturn.donationSource}
    /\ donations[ingReturn.donationSource] = 3
    /\ Owed(getConfig.npub1) = 2
    /\ Owed(getConfig.npub2) = 1
    /\ \A i \in 1..Len(payouts) : payouts[i].status = "pending"

\* C5: a payee's balance is decremented only in a step that takes one
\* payment intent of that payee from pending to sent, by exactly that
\* intent's amount; an intent that has left pending never is pending again,
\* so no intent is the ground of two decrements.
C5_Step ==
    /\ \A n \in Payees :
          OwedAfter(n) < Owed(n) =>
             \E id \in 1..Len(payouts) :
                /\ payouts[id].npub = n
                /\ payouts[id].status = "pending"
                /\ payouts'[id].status = "sent"
                /\ Owed(n) - OwedAfter(n) = payouts[id].amount_sats
                /\ \A other \in 1..Len(payouts) :
                      other # id => payouts'[other] = payouts[other]
    /\ \A id \in 1..Len(payouts) :
          /\ id <= Len(payouts')
          /\ payouts'[id].npub = payouts[id].npub
          /\ payouts'[id].amount_sats = payouts[id].amount_sats
          /\ payouts[id].status # "pending" => payouts'[id].status # "pending"
          /\ (payouts[id].status = "pending" /\ payouts'[id].status = "sent") =>
                Owed(payouts[id].npub) - OwedAfter(payouts[id].npub)
                  = payouts[id].amount_sats

C5_OwedDecrementedOncePerIntent == [][C5_Step]_vars

\* One payee paid by both paths: a chunk of the threshold sent by an
\* ingestion and the remainder sent by the worker, nothing left owed.
C5_Witness ==
    \E i, j \in 1..Len(payouts) :
        /\ payouts[i].npub = payouts[j].npub
        /\ payouts[i].status = "sent" /\ payouts[j].status = "sent"
        /\ payouts[i].external_ref = "stub_tx"
        /\ payouts[j].external_ref = "zap_ref"
        /\ payouts[i].amount_sats = getConfig.threshold
        /\ payouts[j].amount_sats = 1
        /\ Owed(payouts[i].npub) = 0
        /\ donations # NoRows

\* C6: a payment intent is created pending, without reference or error; a
\* status changes only from pending, to sent or to failed; a sent or failed
\* intent is never written again; no intent is ever canceled.
C6_Step ==
    /\ Len(payouts') >= Len(payouts)
    /\ \A id \in NewRowIds :
          /\ payouts'[id].status = "pending"
          /\ payouts'[id].external_ref = Null
          /\ payouts'[id].error = Null
    /\ \A id \in 1..Len(payouts) :
          /\ payouts[id].status \in {"sent", "failed"} =>
                payouts'[id] = payouts[id]
          /\ payouts'[id].status # payouts[id].status =>
                /\ payouts[id].status = "pending"
                /\ payouts'[id].status \in {"sent", "failed"}
          /\ payouts'[id].status # "canceled"
          /\ payouts[id].status \in {"pending", "sent", "failed"}

C6_IntentFinalizedOnce == [][C6_Step]_vars

\* A failed intent with its error, a sent one with its reference and one
\* still pending, side by side.
C6_Witness ==
    \E i, j, k \in 1..Len(payouts) :
        /\ payouts[i].status = "failed" /\ payouts[i].error = "zap_failed"
        /\ payouts[i].external_ref = Null
        /\ payouts[j].status = "sent" /\ payouts[j].external_ref # Null
        /\ payouts[j].error = Null
        /\ payouts[k].status = "pending"
        /\ i < j

PendingSum(npub) == getPendingSum(payouts, npub)
PendingSumAfter(npub) == getPendingSum(payouts', npub)

\* C7: the step that finalizes an intent to failed stores the error, leaves
\* every balance as it was and takes the intent's amount out of the payee's
\* pending sum, so that owed minus pending grows by that amount; the
\* available amount of the next evaluation is computed from that larger
\* difference, and holds the whole amount when the payee's pending intents
\* did not exceed its balance.
C7_Step ==
    \A id \in 1..Len(payouts) :
        (payouts[id].status = "pending" /\ payouts'[id].status = "failed") =>
            LET n == payouts[id].npub
                amount == payouts[id].amount_sats
            IN /\ \A m \in Payees : OwedAfter(m) = Owed(m)
               /\ payouts'[id].error # Null
               /\ PendingSumAfter(n) = PendingSum(n) - amount
               /\ (OwedAfter(n) - PendingSumAfter(n))
                    = (Owed(n) - PendingSum(n)) + amount
               /\ available(PayDbAfter, n)
                    = Max(0, (Owed(n) - PendingSum(n)) + amount)
               /\ Owed(n) - PendingSum(n) >= 0 =>
                     available(PayDbAfter, n) >= amount

Threshold == getConfig.threshold

\* The rows of `rows` that belong to `npub`, as a set of positions.
RowsOf(rows, npub) == {i \in 1..Len(rows) : rows[i].npub = npub}

\* The return of an ingestion that recorded a donation, from either segment.
ReturnedRecorded ==
    /\ ingReturn' # ingReturn
    /\ ingReturn'.status = "ok"
    /\ ingReturn'.donationRecorded

\* C8: chunked dispatch on a stored balance of k*threshold + r, 0 <= r <
\* threshold, creates exactly k pending intents of the threshold each: in
\* the step that records a donation every payee gets as many new pending
\* rows as the threshold fits in its new balance; when the ingestion
\* returns, its k intents sent, the payee is left with r; a balance of 999
\* against a threshold of 1000 creates nothing and one of 1999 creates one
\* intent of 1000.
C8_Step ==
    /\ NewSources # {} =>
          \A n \in Payees :
             LET k == OwedAfter(n) \div Threshold
                 rows == {id \in NewRowIds : payouts'[id].npub = n}
             IN /\ OwedAfter(n) >= 0
                /\ Cardinality(rows) = k
                /\ \A id \in rows :
                      /\ payouts'[id].amount_sats = Threshold
                      /\ payouts'[id].status = "pending"
    /\ NewSources = {} => NewRowIds = {}
    /\ ReturnedRecorded =>
          \A i \in 1..Len(ingReturn'.splits) :
             LET sp == ingReturn'.splits[i]
                 k == sp.newOwed \div Threshold
                 r == sp.newOwed % Threshold
                 sent == RowsOf(ingReturn'.payouts, sp.npub)
             IN /\ Cardinality(sent) = k
                /\ \A j \in sent :
                      /\ ingReturn'.payouts[j].amount = Threshold
                      /\ ingReturn'.payouts[j].status = "sent"
                /\ OwedAfter(sp.npub) = r

C8_Literal ==
    LET db(owed) == [donations |-> NoRows, acc |-> Put(NoRows, "P1", owed),
                     payouts |-> <<>>]
        below == triggerPayoutsIfThreshold(db(999), "P1", 1000)
        one == triggerPayoutsIfThreshold(db(1999), "P1", 1000)
    IN /\ below.payouts = <<>> /\ below.db.payouts = <<>>
       /\ Len(one.payouts) = 1 /\ one.payouts[1].amount = 1000
       /\ Len(one.db.payouts) = 1
       /\ one.db.payouts[1].amount_sats = 1000
       /\ one.db.payouts[1].status = "pending"
       /\ getOwed(one.db, "P1") = 1999

C8_ChunkedDispatch == [][C8_Step /\ C8_Literal]_vars

\* An ingestion that returned with two chunks sent for one payee, nothing
\* left owed to it.
C8_Witness ==
    /\ ingReturn.status = "ok"
    /\ \E n \in Payees :
          /\ Cardinality(RowsOf(ingReturn.payouts, n)) = 2
          /\ Owed(n) = 0
    /\ \E i \in 1..Len(payouts) :
          /\ payouts[i].status = "sent"
          /\ payouts[i].amount_sats = Threshold
    /\ ing[1].pc = "idle"

\* The entries a worker step went past without creating a payout, and the
\* tables as the evaluations of the step saw them (the finalization of the
\* previous payout done, the new row not yet inserted).
C9_From == IF worker.pc = "zap" THEN worker.idx + 1 ELSE 1
C9_Created == Len(payouts') - Len(payouts)
C9_Skipped ==
    C9_From..(IF C9_Created = 1 THEN worker'.idx - 1 ELSE Len(loadedConfig.entries))
C9_Seen == [PayDbAfter EXCEPT !.payouts = SubSeq(@, 1, Len(payouts))]
C9_Available(npub) ==
    Max(0, getOwed(C9_Seen, npub) - getPendingSum(C9_Seen.payouts, npub))

C9_Evaluated(failing) ==
    /\ C9_Created \in {0, 1}
    /\ \A j \in C9_Skipped \ failing :
          C9_Available(loadedConfig.entries[j].npub)
             < loadedConfig.entries[j].min_amount
    /\ C9_Created = 1 =>
          LET e == loadedConfig.entries[worker'.idx]
              row == payouts'[Len(payouts')]
          IN /\ worker'.pc = "zap" /\ worker'.payoutId = Len(payouts')
             /\ worker'.idx \in C9_From..Len(loadedConfig.entries)
             /\ row.npub = e.npub
             /\ row.status = "pending"
             /\ row.amount_sats = C9_Available(e.npub)
             /\ row.amount_sats >= e.min_amount

\* C9: in a worker step every payee evaluated with available = max(0, owed
\* - pending) below its minimum gets no payout row, and the first one at
\* or above its minimum (whose insert does not fail) gets exactly one
\* pending row, of amount available; the step then waits for the payment.
C9_Step ==
    \A failing \in SUBSET (1..Len(loadedConfig.entries)) :
        /\ (WorkerTickWith(failing) /\ ~worker.inCycle /\ worker.configLoaded)
              => C9_Evaluated(failing)
        /\ \A ok \in BOOLEAN, fault \in {"none", "entry"} :
              WorkerZapReturnWith(ok, fault, failing) => C9_Evaluated(failing)

C9_DrainDispatch == [][C9_Step]_vars

\* The worker waiting for the payment of an intent of 1 it created for a
\* payee with balance 3 and an ingestion's chunk of 2 still pending, the
\* other payee being below its minimum.
C9_Witness ==
    /\ worker.pc = "zap"
    /\ worker.payoutId = Len(payouts)
    /\ payouts[worker.payoutId].status = "pending"
    /\ payouts[worker.payoutId].amount_sats = 1
    /\ LET n == payouts[worker.payoutId].npub
       IN /\ Owed(n) = 3
          /\ PendingSum(n) = 3
          /\ \E m \in Payees \ {n} : Owed(m) = 1 /\ PendingSum(m) = 0

\* C10: the step that records a donation of A credits the first payee with
\* a share p1 and the second with p2, where p1 + p2 = A and p1 - p2 is 1
\* for odd A and 0 for even A; each balance grows by exactly its share, and
\* the splits the ingestion reports say the same.
C10_Step ==
    \A s \in NewSources :
        LET A == donations'[s]
            p1 == OwedAfter(getConfig.npub1) - Owed(getConfig.npub1)
            p2 == OwedAfter(getConfig.npub2) - Owed(getConfig.npub2)
            splits == IF ingReturn' # ingReturn THEN ingReturn'.splits
                      ELSE ing'[CHOOSE t \in Tasks : ing'[t] # ing[t]].splits
                            \* the task that has just gone to its payment call
        IN /\ A > 0
           /\ p1 + p2 = A
           /\ p1 - p2 = (IF A % 2 = 1 THEN 1 ELSE 0)
           /\ Len(splits) = 2
           /\ splits[1] = [npub |-> getConfig.npub1, added |-> p1,
                           newOwed |-> OwedAfter(getConfig.npub1)]
           /\ splits[2] = [npub |-> getConfig.npub2, added |-> p2,
                           newOwed |-> OwedAfter(getConfig.npub2)]

C10_SplitShares == [][C10_Step]_vars

\* An odd donation of 5 on top of an even one of 2: shares 3 and 2 on
\* balances of 1 and 1.
C10_Witness ==
    /\ Cardinality(DOMAIN donations) = 2
    /\ \E s, u \in DOMAIN donations : donations[s] = 5 /\ donations[u] = 2
    /\ Owed(getConfig.npub1) = 4
    /\ Owed(getConfig.npub2) = 3
    /\ ingReturn.status = "ok" /\ ingReturn.donationRecorded
    /\ ingReturn.splits[1].added = 1 /\ ingReturn.splits[2].added = 1

(***************************************************************************)
(* Reconciliation, duplicates, rejected inputs                             *)
(***************************************************************************)
UpdatesSum(npub) == calculatedTotal(leaderboard_updates, npub)

\* C11: a validateAndSyncPlayerScore call (its write not failing) for a
\* player whose stored total differs from the sum of the player's recorded
\* updates sets the stored total to that sum and returns
\* wasInconsistent=true, oldTotal the differing value, newTotal the sum and
\* difference = newTotal - oldTotal; the update rows, the initials and the
\* other players' entries stay as they were.
C11_Step ==
    \A npub \in DOMAIN leaderboard_entries :
        ( /\ lbCall'.op = "validateAndSyncPlayerScore"
          /\ lbCall'.npub = npub
          /\ lbCall'.fault = "none"
          /\ StoredTotal(npub) # UpdatesSum(npub) ) =>
            /\ lbResult'.status = "ok"
            /\ lbResult'.sync = [wasInconsistent |-> TRUE,
                                 oldTotal |-> StoredTotal(npub),
                                 newTotal |-> UpdatesSum(npub),
                                 difference |-> UpdatesSum(npub) - StoredTotal(npub)]
            /\ leaderboard_entries' =
                  [leaderboard_entries EXCEPT ![npub].total_sats_lost = UpdatesSum(npub)]
            /\ UNCHANGED leaderboard_updates

C11_ReconciliationRepairsDrift == [][C11_Step]_vars

\* A total that had been raised from outside above the sum of the updates,
\* brought back by one call: a negative difference reported, the total
\* equal to the sum again.
C11_Witness ==
    /\ lbCall.op = "validateAndSyncPlayerScore"
    /\ lbResult.status = "ok"
    /\ lbResult.sync.wasInconsistent
    /\ lbResult.sync.difference < 0
    /\ lbResult.sync.newTotal > 0
    /\ lbCall.npub \in DOMAIN leaderboard_entries
    /\ StoredTotal(lbCall.npub) = lbResult.sync.newTotal
    /\ StoredTotal(lbCall.npub) = UpdatesSum(lbCall.npub)

\* C12: with the store written by updateLeaderboard calls only (accepted,
\* duplicate, rejected or failed), every validateAndSyncPlayerScore call
\* for a player succeeds, reports wasInconsistent=false and difference 0,
\* with oldTotal = newTotal = the stored total (all 0 without an entry),
\* and writes nothing.
C12_Step ==
    ( /\ lbCall'.op = "validateAndSyncPlayerScore"
      /\ lbCall'.npub \in Npubs ) =>
        /\ UNCHANGED <<leaderboard_entries, leaderboard_updates>>
        /\ lbResult'.status = "ok"
        /\ lbResult'.sync = [wasInconsistent |-> FALSE,
                             oldTotal |-> StoredTotal(lbCall'.npub),
                             newTotal |-> StoredTotal(lbCall'.npub),
                             difference |-> 0]

C12_ReconciliationAfterUpdatesIsNoOp == [][C12_Step]_vars

\* A reconciliation run on a player with two recorded updates: consistent,
\* the total of both reported.
C12_Witness ==
    /\ lbCall.op = "validateAndSyncPlayerScore"
    /\ lbResult.status = "ok"
    /\ ~lbResult.sync.wasInconsistent
    /\ lbResult.sync.oldTotal = 2 * MaxSats
    /\ Len(leaderboard_updates) = 2
    /\ leaderboard_updates[1].npub = lbCall.npub
    /\ leaderboard_updates[2].npub = lbCall.npub

\* The recorded update rows carrying a reference id.
RowsWithRef(refId) ==
    {i \in 1..Len(leaderboard_updates) : leaderboard_updates[i].ref_id = refId}

\* C13: an updateLeaderboard call with a reference id already recorded
\* writes nothing (no update row, no total, no initials), whatever player,
\* initials and amount it carries, and returns isDuplicate=true with the
\* stored total of the player it names, 0 if that player has no entry.
C13_Step ==
    ( /\ lbCall'.op = "updateLeaderboard"
      /\ WellFormedCall(lbCall')
      /\ RefRecorded(lbCall'.refId) ) =>
        /\ UNCHANGED <<leaderboard_entries, leaderboard_updates>>
        /\ lbResult'.status = "ok"
        /\ lbResult'.isDuplicate = TRUE
        /\ lbResult'.totalSats =
              (IF lbCall'.npub \in DOMAIN leaderboard_entries
               THEN leaderboard_entries[lbCall'.npub].total_sats_lost
               ELSE 0)

C13_DuplicateWritesNothing == [][C13_Step]_vars

\* A duplicate naming another player than the recorded update, with other
\* initials and another amount, while both players have entries with
\* different totals: the total returned is that of the player named.
C13_Witness ==
    /\ lbCall.op = "updateLeaderboard"
    /\ lbResult.status = "ok" /\ lbResult.isDuplicate
    /\ \E i \in RowsWithRef(lbCall.refId) :
          /\ leaderboard_updates[i].npub # lbCall.npub
          /\ leaderboard_updates[i].sats_lost # lbCall.sats
          /\ leaderboard_updates[i].initials # toUpperCase(lbCall.initials)
          /\ lbCall.npub \in DOMAIN leaderboard_entries
          /\ lbResult.totalSats = StoredTotal(lbCall.npub)
          /\ StoredTotal(lbCall.npub) # StoredTotal(leaderboard_updates[i].npub)
          /\ leaderboard_entries[lbCall.npub].initials # toUpperCase(lbCall.initials)

\* The updateLeaderboard inputs with an empty player key, initials that
\* are not 3 characters, a non-positive amount or an empty reference id.
C14_Rejected ==
    {in \in [npub : Npubs \cup {""}, initials : Initials \cup {"", "ab"},
             sats : (-1)..MaxSats, refId : RefIds \cup {""}, fault : {"none"}] :
        \/ in.npub = "" \/ in.initials \notin Initials
        \/ in.sats <= 0 \/ in.refId = ""}

\* C14: in every reachable state of the store, updateLeaderboard with such
\* an input ends with an error and leaves the event table and every total
\* as they are; recordDonationAndSplitFromAmount with an empty token or a
\* non-positive amount throws and no donation row, no balance and no
\* payment intent changes.
C14_Step ==
    /\ \A in \in C14_Rejected :
          LET r == updateLeaderboard(LbDb, in.npub, in.initials, in.sats,
                                     in.refId, in.fault)
          IN /\ r.res.status = "error"
             /\ r.db = LbDb
             /\ (in \in UpdateInputs /\ UpdateLeaderboardWith(in)) =>
                   UNCHANGED <<leaderboard_entries, leaderboard_updates>>
    /\ \A t \in Tasks, token \in Tokens \cup {""}, amountSats \in (-1)..MaxAmount,
          fault \in DonationFaults :
          ( /\ (token = "" \/ amountSats <= 0)
            /\ IngestStartWith(t, token, amountSats, fault) ) =>
              /\ ingReturn'.status = "error"
              /\ ingReturn'.error \in {"encodedToken is required",
                                       "amountSats must be > 0"}
              /\ UNCHANGED <<donations, split_accumulators, payouts, ing>>

C14_InvalidInputRejectedBeforeWrite == [][C14_Step]_vars

\* A donation with a non-positive amount refused on a store that holds
\* two updates, a donation and a balance.
C14_Witness ==
    /\ ingReturn.status = "error"
    /\ ingReturn.error = "amountSats must be > 0"
    /\ Len(leaderboard_updates) = 2
    /\ donations # NoRows
    /\ Owed(getConfig.npub1) = 1

\* C15: a donation transaction that fails after the donation row has been
\* inserted (at the credit of the second payee, after both credits, or with
\* the payment intents created) leaves no donation row, no balance change
\* and no payment intent, and the ingestion throws the failure to its
\* caller without going on to any payment.
C15_Step ==
    \A t \in Tasks, token \in Tokens, amountSats \in 1..MaxAmount,
       fault \in DonationFaults \ {"none"} :
        ( /\ sha256(token) \notin DOMAIN donations
          /\ IngestStartWith(t, token, amountSats, fault) ) =>
            LET run == recordDonationTx(PayDb, sha256(token), amountSats, fault)
            IN /\ run.threw
               /\ sha256(token) \in DOMAIN run.db.donations
               /\ run.db.acc # split_accumulators
               /\ UNCHANGED <<donations, split_accumulators, payouts, ing>>
               /\ ingReturn' = Threw("storage")

C15_FailedDonationLeavesNothing == [][C15_Step]_vars

\* A failed donation after a recorded one of 1 sat: one donation row, one
\* sat owed, no intent, the error returned.
C15_Witness ==
    /\ ingReturn = Threw("storage")
    /\ Cardinality(DOMAIN donations) = 1
    /\ \A s \in DOMAIN donations : donations[s] = 1
    /\ Owed(getConfig.npub1) = 1
    /\ Owed(getConfig.npub2) = 0
    /\ payouts = <<>>
    /\ \A t \in Tasks : ing[t].pc = "idle"

(***************************************************************************)
(* Payment endpoint down                                                   *)
(***************************************************************************)
\* C16: with every payment call failing, no balance ever decreases and no
\* payment intent ever becomes sent: an intent whose payment was attempted
\* is failed, with an error stored, or (its finalization failing) still
\* pending.
C16_Step ==
    /\ \A n \in Payees : OwedAfter(n) >= Owed(n)
    /\ \A id \in 1..Len(payouts) :
          payouts'[id].status # payouts[id].status =>
             /\ payouts'[id].status = "failed"
             /\ payouts'[id].error # Null
    /\ \A id \in 1..Len(payouts') : payouts'[id].status # "sent"

C16_NothingPaidWhileEndpointDown == [][C16_Step]_vars

\* What does hold with the endpoint down: the worker's payout of 1 failed,
\* its error stored, the balance still owed, and the worker in its next
\* cycle with a new intent for it.
C16_Witness ==
    /\ Len(payouts) = 2
    /\ payouts[1].status = "failed" /\ payouts[1].error = "zap_failed"
    /\ payouts[2].status = "pending"
    /\ payouts[2].npub = payouts[1].npub
    /\ Owed(payouts[1].npub) = 1
    /\ worker.pc = "zap"

(***************************************************************************)
(* C17: a donation is recorded (donation row, owed balances, payment       *)
(* intents) only as a consequence of an access-gate result with decision   *)
(* ACCESS_GRANTED and amount > 0; a denied result, or a granted result     *)
(* with amount 0, changes no donation row, no owed balance and no payment  *)
(* intent.                                                                 *)
(***************************************************************************)
\* The step records something of a donation: a donation row, a credit to an
\* owed balance, a new payment intent, or the start or the end of an
\* ingestion.
C17_Records ==
    \/ DOMAIN donations' # DOMAIN donations
    \/ \E npub \in Payees : OwedAfter(npub) > Owed(npub)
    \/ Len(payouts') > Len(payouts)
    \/ ing[1].pc = "idle" /\ ing'[1].pc = "paying"

\* The step is the handler answering with a result that is not a grant of a
\* positive amount.
C17_Refused ==
    /\ toolResult' # toolResult
    /\ toolResult'.tool = "cashu_access"
    /\ ~(toolResult'.body.decision = "ACCESS_GRANTED" /\ toolResult'.body.amount > 0)

C17_Step ==
    /\ C17_Records =>
          /\ toolResult'.tool = "cashu_access"
          /\ toolResult'.body.decision = "ACCESS_GRANTED"
          /\ toolResult'.body.amount > 0
    /\ C17_Refused =>
          UNCHANGED <<donations, split_accumulators, payouts, ing, ingReturn>>

C17_DonationOnlyAfterGrant == [][C17_Step]_vars

\* Witness: a donation is on record with its credits and an intent, and the
\* gate has last answered a refusal that carried an amount.
C17_Witness ==
    /\ DOMAIN donations # {}
    /\ Len(payouts) > 0
    /\ toolResult.tool = "cashu_access"
    /\ toolResult.body.decision = "ACCESS_DENIED"
    /\ toolResult.body.amount > 0

(***************************************************************************)
(* C18: every tool handler (cashu_access, check_leaderboard,               *)
(* update_leaderboard, get_player, validate_player_score, integrity_check) *)
(* returns a structured result for every outcome: a validation error, a    *)
(* storage error or a collaborator failure inside the operation is turned  *)
(* into a result object and never leaves the handler as a thrown           *)
(* exception.                                                              *)
(***************************************************************************)
ToolNames == {"cashu_access", "check_leaderboard", "update_leaderboard",
              "get_player", "validate_player_score", "integrity_check"}

\* The last answer of a handler is a result or a structured error, and the
\* gate's answer is always a decision.
C18_HandlersNeverThrow ==
    toolResult # NoToolResult =>
        /\ toolResult.tool \in ToolNames
        /\ toolResult.kind \in {"result", "error_result"}
        /\ toolResult.tool = "cashu_access" =>
               /\ toolResult.kind = "result"
               /\ toolResult.body.decision \in {"ACCESS_GRANTED", "ACCESS_DENIED"}

\* Witness: update_leaderboard has answered a structured error after its
\* update was committed (the post-validation failed).
C18_Witness ==
    /\ toolResult.tool = "update_leaderboard"
    /\ toolResult.kind = "error_result"
    /\ uwv[1].pc = "done"
    /\ uwv[1].status = "error"
    /\ \E i \in 1..Len(leaderboard_updates) :
           leaderboard_updates[i].ref_id = uwv[1].refId

(***************************************************************************)
(* C19: at most one payout-worker cycle is in progress at any time: a      *)
(* timer tick that fires while a previous cycle is still running (for      *)
(* example still waiting for a payment call) does nothing, and calling     *)
(* startPayoutWorker more than once does not start a second timer.         *)
(***************************************************************************)
\* The step begins a cycle's work on a payee: an intent is created for the
\* worker's payment call.
C19_CycleStarts ==
    /\ worker'.pc = "zap"
    /\ worker'.payoutId > Len(payouts)

C19_Step ==
    /\ worker'.timers <= 1
    /\ (worker.running /\ StartPayoutWorker) => UNCHANGED vars
    /\ worker.inCycle =>
          /\ worker.pc = "zap"
          /\ \A failing \in SUBSET (1..Len(loadedConfig.entries)) :
                 WorkerTickWith(failing) => UNCHANGED vars
          /\ C19_CycleStarts =>
                 \E ok \in BOOLEAN, fault \in {"none", "entry"},
                    failing \in SUBSET (1..Len(loadedConfig.entries)) :
                     WorkerZapReturnWith(ok, fault, failing)

C19_OneCycleAtATime == [][C19_Step]_vars

\* Witness: the worker is started, a cycle is waiting for its payment call
\* with its intent pending, and a donation that arrived meanwhile is being
\* paid out.
C19_Witness ==
    /\ worker.running
    /\ worker.timers = 1
    /\ worker.inCycle
    /\ worker.pc = "zap"
    /\ payouts[worker.payoutId].status = "pending"
    /\ ing[1].pc = "paying"

(***************************************************************************)
(* C20: within one payout-worker cycle, a failure while processing one     *)
(* configured payee (a failed payment, or an exception raised while        *)
(* reading, creating or finalizing) does not stop the cycle: every later   *)
(* payee in the configuration is still evaluated in that same cycle.       *)
(***************************************************************************)
\* The entries from `from` on that the step finds payable: valid, at or
\* above their minimum as the step sees the tables, their processing not
\* failing.
C20_Payable(from, failing) ==
    {j \in from..Len(loadedConfig.entries) :
        /\ j \notin failing
        /\ ~invalidEntry(loadedConfig.entries[j])
        /\ C9_Available(loadedConfig.entries[j].npub)
              >= loadedConfig.entries[j].min_amount}

\* The cycle has gone on from entry `from`: the first payable entry has got
\* its intent and the cycle waits for its payment, or none is payable and
\* the cycle has ended without a new intent.
C20_GoesOn(from, failing) ==
    LET payable == C20_Payable(from, failing)
    IN IF payable = {}
       THEN /\ C9_Created = 0
            /\ worker'.pc = "idle"
            /\ ~worker'.inCycle
       ELSE LET j == CHOOSE i \in payable : \A k \in payable : i <= k
                row == payouts'[Len(payouts')]
            IN /\ C9_Created = 1
               /\ worker'.pc = "zap"
               /\ worker'.inCycle
               /\ worker'.idx = j
               /\ worker'.payoutId = Len(payouts')
               /\ row.npub = loadedConfig.entries[j].npub
               /\ row.status = "pending"
               /\ row.amount_sats = C9_Available(loadedConfig.entries[j].npub)

C20_Step ==
    \A failing \in SUBSET (1..Len(loadedConfig.entries)) :
        /\ (~worker.inCycle /\ worker.configLoaded /\ failing # {}
               /\ WorkerTickWith(failing))
              => C20_GoesOn(1, failing)
        /\ worker.pc = "zap" =>
              \A ok \in BOOLEAN, fault \in {"none", "entry"} :
                  ((~ok \/ fault # "none")
                     /\ WorkerZapReturnWith(ok, fault, failing))
                    => C20_GoesOn(worker.idx + 1, failing)

C20_FailureDoesNotStopCycle == [][C20_Step]_vars

\* Witness: the first payee's payment has failed in this cycle (its intent
\* is failed, its balance untouched) and the cycle is waiting for the
\* payment of the last entry's payee.
C20_Witness ==
    /\ worker.pc = "zap"
    /\ worker.idx = Len(loadedConfig.entries)
    /\ worker.idx > 1
    /\ payouts[worker.payoutId].status = "pending"
    /\ worker.payoutId > 1
    /\ payouts[worker.payoutId - 1].status = "failed"
    /\ payouts[worker.payoutId - 1].npub = loadedConfig.entries[1].npub
    /\ payouts[worker.payoutId - 1].npub # payouts[worker.payoutId].npub

(***************************************************************************)
(* C21: performIntegrityCheck changes no stored data, and its report lists *)
(* exactly the players whose stored total differs from the sum of their    *)
(* recorded updates, each with difference = computed sum - stored total;   *)
(* totalDiscrepancy is the sum of the absolute differences and             *)
(* consistentPlayers + inconsistentPlayers = totalPlayers.                 *)
(***************************************************************************)
\* The players on the leaderboard whose stored total is not the sum of their
\* updates, and by how much it is not.
C21_Drifted ==
    {npub \in DOMAIN leaderboard_entries :
        leaderboard_entries[npub].total_sats_lost # UpdatesSum(npub)}

C21_Drift(npub) ==
    IF npub \in C21_Drifted
    THEN LET d == UpdatesSum(npub) - leaderboard_entries[npub].total_sats_lost
         IN IF d < 0 THEN 0 - d ELSE d
    ELSE 0

\* The step is integrity_check answering.
C21_Answered ==
    /\ toolResult'.tool = "integrity_check"
    /\ \/ toolResult.tool # "integrity_check"
       \/ toolResult.kind # toolResult'.kind
       \/ toolResult.kind = "result" /\ toolResult.body # toolResult'.body

C21_Step ==
    C21_Answered =>
       /\ UNCHANGED <<leaderboard_entries, leaderboard_updates, donations,
                      split_accumulators, payouts, cashu_access_requests>>
       /\ toolResult'.kind = "result" =>
            LET report == toolResult'.body
            IN /\ {i.npub : i \in report.issues} = C21_Drifted
               /\ Cardinality(report.issues) = Cardinality(C21_Drifted)
               /\ \A i \in report.issues :
                     /\ i.leaderboardTotal = leaderboard_entries[i.npub].total_sats_lost
                     /\ i.calculatedTotal = UpdatesSum(i.npub)
                     /\ i.difference = i.calculatedTotal - i.leaderboardTotal
               /\ report.totalDiscrepancy = C21_Drift("p1") + C21_Drift("p2")
               /\ report.totalPlayers = Cardinality(DOMAIN leaderboard_entries)
               /\ report.inconsistentPlayers = Cardinality(C21_Drifted)
               /\ report.consistentPlayers + report.inconsistentPlayers
                     = report.totalPlayers

C21_IntegrityCheckReadOnlyAndExact == [][C21_Step]_vars

\* Witness: the last answer is a report on two players, one whose stored
\* total is above the sum of the updates and one whose stored total is
\* below it, and the store is still as reported.
C21_Witness ==
    /\ toolResult.tool = "integrity_check"
    /\ toolResult.kind = "result"
    /\ toolResult.body.inconsistentPlayers = 2
    /\ \E i, j \in toolResult.body.issues : i.difference < 0 /\ j.difference > 0
    /\ C21_Drifted = {"p1", "p2"}
    /\ toolResult.body.totalDiscrepancy = C21_Drift("p1") + C21_Drift("p2")

(***************************************************************************)
(* C22: the optional amount validation (validateCashuTokenAmount) changes  *)
(* no ledger state whatever its verdict, and a negative verdict or a       *)
(* validation error does not block the ingestion: the donation is still    *)
(* recorded and split exactly as without validation.                       *)
(***************************************************************************)
\* The step is a redemption going to its first payment call or returning,
\* with the verdict and the donation source it carries.
C22_Started ==
    /\ ing[1].pc = "idle"
    /\ ing'[1].pc = "paying" \/ ingReturn' # ingReturn

C22_Verdict ==
    IF ing'[1].pc = "paying" THEN ing'[1].validation ELSE ingReturn'.validation

C22_Source ==
    IF ing'[1].pc = "paying" THEN ing'[1].source ELSE ingReturn'.donationSource

\* The token was granted a positive amount and the store did not fail.
C22_Ingested ==
    /\ C22_Verdict.reason # "Cashu token rejected"
    /\ ing'[1].pc = "paying" \/ ingReturn'.status # "error"

C22_Step ==
    C22_Started =>
       /\ UNCHANGED <<leaderboard_entries, leaderboard_updates>>
       /\ C22_Ingested =>
             /\ C22_Source \in DOMAIN donations'
             /\ LET without ==
                        executeTransaction(PayDb,
                            recordDonationTx(PayDb, C22_Source,
                                             donations'[C22_Source], "none"))
                IN /\ donations' = without.db.donations
                   /\ split_accumulators' = without.db.acc
                   /\ payouts' = without.db.payouts

C22_ValidationIsAdvisory == [][C22_Step]_vars

\* Witness: a redemption has returned a recorded donation with its payout
\* made and a negative verdict.
C22_Witness ==
    /\ ingReturn.status = "ok"
    /\ ingReturn.donationRecorded
    /\ ingReturn.donationSource \in DOMAIN donations
    /\ ~ingReturn.validation.isValid
    /\ Len(ingReturn.payouts) > 0
    /\ DOMAIN leaderboard_entries # {}

(***************************************************************************)
(* C23: in donation ingestion, pending payment intents are created only    *)
(* after the transaction that records the donation and credits both owed   *)
(* balances has committed; the dispatcher is then invoked once per payee   *)
(* that received a share.                                                  *)
(***************************************************************************)
\* For the ingestion of a new token: the transaction that records the
\* donation writes no payment intent, so that a store that fails while the
\* intents are created leaves the donation and its credits committed; and
\* the intents that are created are for payees that received a share.
C23_Step ==
    \A token \in Tokens, amountSats \in 1..MaxAmount, fault \in DonationFaults :
        ( /\ sha256(token) \notin DOMAIN donations
          /\ IngestStartWith(1, token, amountSats, fault) ) =>
            LET run == recordDonationTx(PayDb, sha256(token), amountSats, fault)
            IN /\ run.db.payouts = payouts
               /\ fault = "intent" =>
                     /\ sha256(token) \in DOMAIN donations'
                     /\ OwedAfter(getConfig.npub1)
                           = Owed(getConfig.npub1) + ceilHalf(amountSats)
               /\ \A i \in NewRowIds :
                     OwedAfter(payouts'[i].npub) > Owed(payouts'[i].npub)

C23_IntentsCreatedAfterCommit == [][C23_Step]_vars

\* What the code does: the first donation has become visible together with
\* its pending intent, written by the same transaction.
C23_Witness ==
    /\ Cardinality(DOMAIN donations) = 1
    /\ Len(payouts) = 1
    /\ payouts[1].status = "pending"
    /\ ing[1].pc = "paying"
    /\ ing[1].finalized = <<>>


(***************************************************************************)
(* C24: after any sequence of cashu_access calls the access-request table  *)
(* holds at most one row per token hash; a row exists for every token that *)
(* was presented (whenever the write succeeded), whether or not a donation *)
(* was recorded for it; and the row holds the decision, amount and reason  *)
(* of the most recent presentation of that token.                          *)
(***************************************************************************)
\* The row that the answer just given stands for.
C24_RowOfAnswer ==
    [decision |-> toolResult'.body.decision,
     amount_sats |-> toolResult'.body.amount,
     reason |-> toolResult'.body.reason]

C24_Step ==
    \A encodedToken \in {"", "t1"}, reply \in Replies,
       persistFault \in BOOLEAN, fault \in DonationFaults :
        CashuAccessWith(1, encodedToken, reply, persistFault, fault) =>
            LET ref_id == sha256(encodedToken)
            IN /\ persistFault => cashu_access_requests' = cashu_access_requests
               /\ ~persistFault =>
                     /\ ref_id \in DOMAIN cashu_access_requests'
                     /\ cashu_access_requests'[ref_id] = C24_RowOfAnswer
                     /\ DOMAIN cashu_access_requests'
                            = DOMAIN cashu_access_requests \cup {ref_id}
                     /\ \A other \in DOMAIN cashu_access_requests \ {ref_id} :
                            cashu_access_requests'[other]
                                = cashu_access_requests[other]

C25_Overcommitted(npub) ==
    \E i, j \in 1..Len(payouts) :
        /\ i # j
        /\ payouts[i].npub = npub /\ payouts[i].status = "pending"
        /\ payouts[j].npub = npub /\ payouts[j].status = "pending"
        /\ payouts[i].amount_sats + payouts[j].amount_sats > Owed(npub)

\* A step that finalizes as sent an intent of a payee whose pending intents
\* exceed the stored balance (both of the two, or the one left of them)
\* takes exactly its amount off the stored balance, with no check against
\* the balance: owed minus pending stays what it was (negative), and once
\* no intent of the payee is pending any more the stored balance is below
\* zero.
C25_Step ==
    \A i \in 1..Len(payouts) :
        ( /\ payouts[i].status = "pending"
          /\ payouts'[i].status = "sent"
          /\ PendingSum(payouts[i].npub) > Owed(payouts[i].npub) ) =>
            LET npub == payouts[i].npub
            IN /\ OwedAfter(npub) = Owed(npub) - payouts[i].amount_sats
               /\ OwedAfter(npub) - PendingSumAfter(npub)
                      = Owed(npub) - PendingSum(npub)
               /\ PendingSumAfter(npub) = 0 => OwedAfter(npub) < 0

C25_OvercommitDrivesOwedBelowZero == [][C25_Step]_vars

\* The balance after both intents were sent.
C25_BelowZero == \E npub \in Payees : Owed(npub) < 0

\* Witness: the worker's cycle waits for the payment of its intent while an
\* ingestion, which has credited the same payee, waits for the payment of a
\* chunk; the two pending intents exceed the stored balance.
C25_Witness ==
    /\ worker.pc = "zap"
    /\ ing[1].pc = "paying"
    /\ payouts[worker.payoutId].status = "pending"
    /\ C25_Overcommitted(payouts[worker.payoutId].npub)
    /\ \E j \in 1..Len(payouts) :
          /\ j # worker.payoutId
          /\ payouts[j].npub = payouts[worker.payoutId].npub
          /\ payouts[j].status = "pending"
          /\ payouts[j].amount_sats = getConfig.threshold


(***************************************************************************)
(* C26: creating a pending payment intent, under either policy (chunked or *)
(* drain), leaves every stored owed balance unchanged; an owed balance     *)
(* decreases only in the step that finalizes an intent as sent.            *)
(***************************************************************************)
\* What the step credits to npub: its share of the donation it records.
C26_Credited(npub) ==
    SumOver(NewSources,
            [s \in NewSources |->
                IF npub = getConfig.npub1 THEN ceilHalf(donations'[s])
                ELSE floorHalf(donations'[s])])

\* The intents of npub that the step takes from pending to sent.
C26_SentNow(npub) ==
    {i \in 1..Len(payouts) :
        /\ payouts[i].npub = npub
        /\ payouts[i].status = "pending"
        /\ payouts'[i].status = "sent"}

\* Every balance after a step is the balance before it, plus the share
\* credited, minus the amounts of the intents finalized as sent: the pending
\* rows the step appends, whichever policy made them, take nothing off.
C26_Step ==
    /\ \A npub \in Payees :
          /\ OwedAfter(npub)
                = Owed(npub) + C26_Credited(npub)
                  - SumOver(C26_SentNow(npub),
                            [i \in C26_SentNow(npub) |-> payouts[i].amount_sats])
          /\ OwedAfter(npub) < Owed(npub) => C26_SentNow(npub) # {}
    /\ ( /\ NewRowIds # {}
         /\ NewSources = {}
         /\ \A npub \in Payees : C26_SentNow(npub) = {} ) =>
            split_accumulators' = split_accumulators
    /\ \A id \in NewRowIds : payouts'[id].status = "pending"

\* The creating operators themselves, on the current tables.
C26_Creation ==
    \A npub \in Payees :
        /\ triggerPayoutsIfThreshold(PayDb, npub, Threshold).db.acc
              = split_accumulators
        /\ \A amount \in 1..MaxAmount :
              /\ createPayoutRow(PayDb, npub, amount).acc = split_accumulators
              /\ createPendingPayout(PayDb, npub, amount).acc = split_accumulators

C26_CreationLeavesOwed == [][C26_Step /\ C26_Creation]_vars

\* Witness: a drain intent of the worker and a chunk of an ingestion are
\* pending, nothing has been finalized, and the balances still hold every
\* sat that was donated.
C26_Witness ==
    /\ worker.pc = "zap"
    /\ ing[1].pc = "paying"
    /\ ing[1].finalized = <<>>
    /\ Len(payouts) >= 2
    /\ \A i \in 1..Len(payouts) : payouts[i].status = "pending"
    /\ Owed(getConfig.npub1) + Owed(getConfig.npub2)
          = SumOver(DOMAIN donations, donations)


(***************************************************************************)
(* C27: when a donation ingestion returns, every payment intent it created *)
(* has been attempted once, in creation order (the first payee's intents   *)
(* before the second payee's), and is in a terminal status (sent or        *)
(* failed); the returned payout list has exactly one entry per created     *)
(* intent, together with the split breakdown.                              *)
(***************************************************************************)
\* Task t returns from its finalization loop in this step.
C27_Returns(t) ==
    /\ ing[t].pc = "paying"
    /\ ing'[t].pc = "idle"
    /\ ingReturn'.status = "ok"

C27_Step ==
    /\ \A t \in Tasks :
          C27_Returns(t) =>
             LET ids == ing[t].payoutIds
                 list == ingReturn'.payouts
             IN /\ Len(list) = Len(ids)
                /\ \A k \in 1..Len(ids) :
                      /\ payouts'[ids[k]].status \in {"sent", "failed"}
                      /\ list[k].npub = payouts'[ids[k]].npub
                      /\ list[k].amount = payouts'[ids[k]].amount_sats
                      /\ list[k].status = payouts'[ids[k]].status
                /\ \A j, k \in 1..Len(list) :
                      (list[j].npub = getConfig.npub1
                         /\ list[k].npub = getConfig.npub2) => j < k
                /\ ingReturn'.splits = ing[t].splits
                /\ Len(ingReturn'.splits) = 2
    /\ (ReturnedAtOnce /\ ingReturn'.status = "ok") =>
          /\ ingReturn'.payouts = <<>>
          /\ NewRowIds = {}

C27_ReturnMeansIntentsFinalized == [][C27_Step]_vars

\* Witness: an ingestion has returned its list of sent payouts, no other
\* ingestion and no worker cycle is under way, and an intent is pending.
C27_Witness ==
    /\ ingReturn.status = "ok"
    /\ ingReturn.payouts # <<>>
    /\ \A k \in 1..Len(ingReturn.payouts) : ingReturn.payouts[k].status = "sent"
    /\ \A t \in Tasks : ing[t].pc = "idle"
    /\ worker.pc # "zap"
    /\ \E i \in 1..Len(payouts) : payouts[i].status = "pending"


(***************************************************************************)
(* C28: nothing retries a failed payment inside the cycle that attempted   *)
(* it: each intent gets exactly one payment call, and a payee whose        *)
(* payment failed is attempted again only by a later worker cycle (or a    *)
(* later donation) that finds the surplus still at or above the minimum,   *)
(* through a newly created intent.                                         *)
(***************************************************************************)
\* The worker issues a payment call in this step: it waits on another intent
\* than before.
C28_Calls == worker'.pc = "zap" /\ worker'.payoutId # worker.payoutId

\* The payment of the intent the cycle waited on has failed in this step.
C28_Failed ==
    /\ worker.pc = "zap"
    /\ payouts[worker.payoutId].status = "pending"
    /\ payouts'[worker.payoutId].status = "failed"

C28_Step ==
    /\ C28_Calls =>
          LET entry == loadedConfig.entries[worker'.idx]
          IN /\ worker'.payoutId \in NewRowIds
             /\ payouts'[worker'.payoutId].status = "pending"
             /\ payouts'[worker'.payoutId].npub = entry.npub
             /\ payouts'[worker'.payoutId].amount_sats >= entry.min_amount
             /\ worker.pc = "zap" => worker'.idx > worker.idx
             /\ worker.pc # "zap" => ~worker.inCycle
    /\ C28_Failed =>
          LET npub == payouts[worker.payoutId].npub
          IN /\ \A id \in NewRowIds : payouts'[id].npub # npub
             /\ PendingSumAfter(npub) = PendingSum(npub) - worker.payAmount
             /\ OwedAfter(npub) = Owed(npub)
    /\ \A id \in 1..Len(payouts) :
          payouts[id].status = "failed" => payouts'[id] = payouts[id]

FailedReplies == {reply \in Replies : reply.kind # "ok"}

C29_Step ==
    \A encodedToken \in {"", "t1"}, reply \in FailedReplies,
       persistFault \in BOOLEAN, fault \in DonationFaults :
        CashuAccessWith(1, encodedToken, reply, persistFault, fault) =>
            /\ toolResult'.tool = "cashu_access"
            /\ toolResult'.kind = "result"
            /\ toolResult'.body.decision = "ACCESS_DENIED"
            /\ toolResult'.body.amount = 0
            /\ toolResult'.body.reason # ""
            /\ toolResult'.body = processCashuToken(encodedToken, reply)
            /\ UNCHANGED <<donations, split_accumulators, payouts, ing, ingReturn>>

C29_UnavailableIsDenied == [][C29_Step]_vars

\* Witness: a token whose donation is on record was presented again and the
\* Cashuwall answered with a non-2xx status; the gate's answer and the stored
\* decision say so.
C29_Witness ==
    /\ sha256("t1") \in DOMAIN donations
    /\ toolResult.tool = "cashu_access"
    /\ toolResult.body.reason = "HTTP 500"
    /\ sha256("t1") \in DOMAIN cashu_access_requests
    /\ cashu_access_requests[sha256("t1")].reason = "HTTP 500"
    /\ cashu_access_requests[sha256("t1")].amount_sats = 0


(***************************************************************************)
(* C30: the cashu_access response is the access-gate decision and is       *)
(* returned without waiting for the donation recording: it is the same     *)
(* whether persisting the access request failed, whether the background    *)
(* recording succeeded, failed or never completes, and an error in the     *)
(* background task never reaches the caller.                               *)
(***************************************************************************)
\* A turn of the recording that runs in the background.
C30_Background == ing[1].pc = "paying" /\ ing'[1] # ing[1]

C30_Step ==
    /\ toolResult'.tool = "cashu_access" => toolResult'.kind = "result"
    /\ \A encodedToken \in {"", "t1"}, reply \in Replies,
          persistFault \in BOOLEAN, fault \in DonationFaults :
           CashuAccessWith(1, encodedToken, reply, persistFault, fault) =>
               toolResult' = [tool |-> "cashu_access", kind |-> "result",
                              body |-> processCashuToken(encodedToken, reply)]
    /\ C30_Background => UNCHANGED gateVars

C30_ResponseIsGateDecision == [][C30_Step]_vars

\* Witness: the caller holds the grant of 3 sats although the access request
\* could not be persisted and the recording it started has failed.
C30_Witness ==
    /\ toolResult.tool = "cashu_access"
    /\ toolResult.kind = "result"
    /\ toolResult.body.decision = "ACCESS_GRANTED"
    /\ toolResult.body.amount = 3
    /\ cashu_access_requests = NoRows
    /\ ingReturn.status = "error"
    /\ donations = NoRows


(***************************************************************************)
(* C31: after updateLeaderboardWithValidation returns for a player, the    *)
(* player's stored total equals the sum of the player's recorded updates   *)
(* even if the stored total had been perturbed before the call, the        *)
(* returned totalSats equals that stored total for a non-duplicate call,   *)
(* and validationResult.isConsistent is true.                              *)
(***************************************************************************)
\* The call of request 1 returns in this step.
C31_Returns ==
    /\ uwv[1].pc = "post"
    /\ uwv'[1].pc = "done"
    /\ uwv'[1].status = "ok"

\* validationResult.isConsistent = !postValidation.wasInconsistent
C31_isConsistent == ~uwv'[1].post.wasInconsistent

C31_Step ==
    C31_Returns =>
        LET npub == uwv'[1].npub
        IN /\ StoredTotalAfter(npub) = calculatedTotal(leaderboard_updates', npub)
           /\ ~uwv'[1].upd.isDuplicate =>
                 uwv'[1].upd.totalSats = StoredTotalAfter(npub)
           /\ C31_isConsistent

C31_ValidatedUpdateLeavesConsistent == [][C31_Step]_vars

\* Witness: the call has returned a total that is not the stored one, with
\* isConsistent false, for a player whose stored total is the sum of its
\* updates again.
C31_Witness ==
    /\ uwv[1].pc = "done"
    /\ uwv[1].status = "ok"
    /\ ~uwv[1].upd.isDuplicate
    /\ uwv[1].post.wasInconsistent
    /\ uwv[1].upd.totalSats # StoredTotal(uwv[1].npub)
    /\ StoredTotal(uwv[1].npub) = UpdatesSum(uwv[1].npub)


(***************************************************************************)
(* C32: in every committed state reachable by any interleaving of donation *)
(* ingestions and payout-worker cycles, the sum of all recorded donation   *)
(* amounts equals the sum of all payees' owed balances plus the sum of the *)
(* amounts of all intents in status sent (the report's "Donations - (Owed  *)
(* + Sent)" is 0).                                                         *)
(***************************************************************************)
\* SELECT COALESCE(SUM(amount_sats),0) FROM donations
C32_Donations == SumOver(DOMAIN donations, donations)

\* SELECT COALESCE(SUM(owed_sats),0) FROM split_accumulators
C32_Owed == SumOver(DOMAIN split_accumulators, split_accumulators)

\* SELECT COALESCE(SUM(amount_sats),0) FROM payouts WHERE status='sent'
C32_Sent ==
    LET sent == {i \in 1..Len(payouts) : payouts[i].status = "sent"}
    IN SumOver(sent, [i \in sent |-> payouts[i].amount_sats])

C32_DonationsAreOwedOrSent == C32_Donations - (C32_Owed + C32_Sent) = 0

\* Witness: two donations, intents sent by both paths and one failed, and
\* a payee overpaid by the overcommit race.
C32_Witness ==
    /\ Cardinality(DOMAIN donations) = 2
    /\ \E npub \in Payees : Owed(npub) < 0
    /\ \E i \in 1..Len(payouts) : payouts[i].status = "failed"
    /\ \E i, j \in 1..Len(payouts) :
          /\ payouts[i].status = "sent" /\ payouts[i].external_ref = "stub_tx"
          /\ payouts[j].status = "sent" /\ payouts[j].external_ref = "zap_ref"


(***************************************************************************)
(* C33: assuming every payment call returns and the process does not stop, *)
(* every payment intent that is created is eventually finalized (sent or   *)
(* failed) under any interleaving of the immediate path and the payout     *)
(* worker: no intent stays pending forever, where it would permanently     *)
(* reduce the payee's `available`.                                         *)
(***************************************************************************)
C33_Pending(i) == i <= Len(payouts) /\ payouts[i].status = "pending"

C33_Finalized(i) ==
    i <= Len(payouts) /\ payouts[i].status \in {"sent", "failed"}

C33_EveryIntentFinalized ==
    \A i \in 1..MaxPayouts : C33_Pending(i) ~> C33_Finalized(i)

\* Witness: an intent is pending, its amount is held back from the payee's
\* available amount, and neither an ingestion nor a worker cycle is under
\* way that could finalize it.
C33_Witness ==
    /\ \A t \in Tasks : ing[t].pc = "idle"
    /\ worker.pc = "idle"
    /\ ~worker.inCycle
    /\ \E i \in 1..Len(payouts) :
          /\ payouts[i].status = "pending"
          /\ Owed(payouts[i].npub) >= payouts[i].amount_sats
          /\ available(PayDb, payouts[i].npub)
                = Owed(payouts[i].npub) - payouts[i].amount_sats


(***************************************************************************)
(* C34: every entry that a donation ingestion returns with status sent     *)
(* corresponds to an intent created by that same ingestion whose stored    *)
(* status this ingestion changed from pending to sent, with the owed       *)
(* balance decremented for it; the lookup by (payee, amount, pending,      *)
(* newest first) never finalizes an intent created by another ingestion or *)
(* by the payout worker, and never reports sent when no row was finalized. *)
(***************************************************************************)
\* Task t puts an entry on its list of finalized payouts in this step.
C34_Reports(t) ==
    /\ ing[t].pc = "paying"
    /\ \/ /\ ing'[t].pc = "paying"
          /\ Len(ing'[t].finalized) = Len(ing[t].finalized) + 1
       \/ /\ ing'[t].pc = "idle"
          /\ ingReturn'.status = "ok"

\* The entry it reports.
C34_Entry(t) == ing[t].pendingPayouts[Len(ing[t].finalized) + 1]

\* The rows task t created.
C34_Own(t) == {ing[t].payoutIds[k] : k \in 1..Len(ing[t].payoutIds)}

C34_Step ==
    \A t \in Tasks :
        C34_Reports(t) =>
            \E id \in C34_Own(t) :
                /\ payouts[id].status = "pending"
                /\ payouts'[id].status = "sent"
                /\ payouts[id].npub = C34_Entry(t).npub
                /\ payouts[id].amount_sats = C34_Entry(t).amount
                /\ OwedAfter(payouts[id].npub)
                      = Owed(payouts[id].npub) - payouts[id].amount_sats
                /\ \A other \in 1..Len(payouts) :
                      other # id => payouts'[other] = payouts[other]

C34_SentEntryIsOwnIntent == [][C34_Step]_vars

\* Witness: an ingestion has not had any of its payment calls return yet,
\* and an intent it created is already marked sent.
C34_Witness ==
    \E t \in Tasks :
        /\ ing[t].pc = "paying"
        /\ ing[t].finalized = <<>>
        /\ \E k \in 1..Len(ing[t].payoutIds) :
              payouts[ing[t].payoutIds[k]].status = "sent"


(***************************************************************************)
(* C35: when donation ingestions run one at a time (each completes,        *)
(* finalization included, before the next starts), the payout worker is    *)
(* not running, the floor is positive and every payment succeeds, each     *)
(* payee's owed balance is never negative and is strictly below the floor  *)
(* after every completed ingestion.                                        *)
(***************************************************************************)
\* An ingestion returns in this step, at once or from its finalization loop.
C35_Completes ==
    /\ ingReturn'.status = "ok"
    /\ \/ ing[1].pc = "paying" /\ ing'[1].pc = "idle"
       \/ ing' = ing /\ ingReturn' # ingReturn

C35_Step ==
    /\ Threshold > 0
    /\ \A npub \in Payees : OwedAfter(npub) >= 0
    /\ C35_Completes =>
          \A npub \in Payees : OwedAfter(npub) < Threshold

C35_OwedBelowFloorAfterIngestion == [][C35_Step]_vars

\* Witness: two donations ingested, three chunks sent, nothing owed.
C35_Witness ==
    /\ Cardinality(DOMAIN donations) = 2
    /\ Len(payouts) = 3
    /\ \A i \in 1..Len(payouts) : payouts[i].status = "sent"
    /\ \A npub \in Payees : Owed(npub) = 0
    /\ ingReturn.status = "ok"
    /\ ing[1].pc = "idle"


(***************************************************************************)
(* C36: when only the payout worker creates intents (donations only credit *)
(* balances and never reach the chunked floor), then in every reachable    *)
(* state each payee has at most one pending intent, the sum of a payee's   *)
(* pending intents never exceeds its owed balance, and no owed balance is  *)
(* ever negative.                                                          *)
(***************************************************************************)
C36_PendingOf(npub) ==
    {i \in 1..Len(payouts) :
        payouts[i].npub = npub /\ payouts[i].status = "pending"}

C36_OnePendingWithinOwed ==
    \A npub \in Payees :
        /\ Cardinality(C36_PendingOf(npub)) <= 1
        /\ PendingSum(npub) <= Owed(npub)
        /\ Owed(npub) >= 0

\* Witness: a payee with two pending drain intents, the older one left
\* behind by a cycle that has ended.
C36_Witness ==
    /\ worker.pc = "zap"
    /\ \E i \in 1..Len(payouts) :
          /\ i < worker.payoutId
          /\ payouts[i].status = "pending"
          /\ payouts[worker.payoutId].status = "pending"
          /\ payouts[i].npub = payouts[worker.payoutId].npub
    /\ \A i \in 1..Len(payouts) : payouts[i].amount_sats < HighThresholdConfig.threshold
    /\ \A t \in Tasks : ing[t].pc = "idle"


(***************************************************************************)
(* C37: in local mode (CASHU_LOCAL=TRUE), for any interleaving of          *)
(* processCashuToken calls, a given token is answered ACCESS_GRANTED at    *)
(* most once; every other presentation of the same token, including one    *)
(* that overlaps the first in time, is answered ACCESS_DENIED with reason  *)
(* token_already_used (an answer that reports a storage failure aside).    *)
(***************************************************************************)
C37_Granted(i) == localReturn[i].result.decision = "ACCESS_GRANTED"

C37_StorageFailure(i) ==
    localReturn[i].result.reason \in {"storage_unavailable", "storage_write_failed"}

C37_GrantedAtMostOnce ==
    \A i, j \in 1..Len(localReturn) :
        (/\ i < j
         /\ localReturn[i].token = localReturn[j].token
         /\ C37_Granted(i)
         /\ ~C37_StorageFailure(j))
        => /\ localReturn[j].result.decision = "ACCESS_DENIED"
           /\ localReturn[j].result.reason = "token_already_used"

\* Witness: two calls with the same token have returned ACCESS_GRANTED and
\* the token's file is in the store.
C37_Witness ==
    /\ Len(localReturn) = 2
    /\ localReturn[1].token = "t1" /\ localReturn[2].token = "t1"
    /\ C37_Granted(1) /\ C37_Granted(2)
    /\ sha256("t1") \in DOMAIN cashu_local
    /\ \A t \in Tasks : local[t].pc = "idle"


C39_CycleOver == worker'.pc = "idle"

C39_Step ==
    /\ C39_CycleOver => ~worker'.inCycle
    /\ \A failing \in SUBSET (1..Len(loadedConfig.entries)) :
          (/\ worker.pc = "idle"
           /\ worker.configLoaded
           /\ WorkerTickWith(failing))
          => LET r == cycleFrom(PayDb, worker, 1, failing)
             IN /\ payouts' = r.db.payouts
                /\ worker' = r.w

C39_GuardReleasedWhenCycleEnds == [][C39_Step]_vars

\* Witness: a cycle has ended with a failed payment (its row is marked
\* failed) and a later tick has started the cycle that now waits for the
\* payment of the same payee.
C39_Witness ==
    /\ worker.pc = "zap"
    /\ worker.inCycle
    /\ \E i \in 1..Len(payouts) :
          /\ i < worker.payoutId
          /\ payouts[i].status = "failed"
          /\ payouts[i].npub = "P1"
          /\ payouts[worker.payoutId].npub = "P1"
          /\ payouts[i].amount_sats < Threshold

====
